---- MODULE Spec2Model ----
(***************************************************************************)
(* A model of the Fisheye facade of fisheye.js (class Fisheye): its        *)
(* configuration handling (applyDefaults, updateConfig), the lazily built  *)
(* GPU resources, the double-buffered readback of undistort, and destroy.  *)
(*                                                                         *)
(* Conventions.  An optional JavaScript value (T | undefined, T | null) is *)
(* a sequence of length 0 or 1: None is undefined/null, Some(v) is v.      *)
(* An options object is a function from OptionKeys to optional values; a   *)
(* key that the object does not carry maps to None.  GPU objects are       *)
(* records with a unique id; the set destroyedIds holds the ids of the     *)
(* objects on which destroy() was called.  Pixel contents are abstracted   *)
(* to the sequence number of the input frame they were computed from.      *)
(*                                                                         *)
(* The private helpers (the focal length of the estimated camera matrix,   *)
(* the row alignment and row copy of the readback, the distortion          *)
(* polynomial and its Newton inverse, the per-pixel kernel of the compute  *)
(* pipeline) and createVideoFrameFromYUV of utils.ts are also evaluated on *)
(* their own, on enumerated arguments; the variable calc holds the         *)
(* helper's arguments, locals and result.                                  *)
(*                                                                         *)
(* Calls on an instance are serialized in Spec.  SpecOverlap starts a      *)
(* second undistort call while the first is in flight, and SpecInterleaved *)
(* runs updateConfig and destroy while a call is suspended at an await.    *)
(***************************************************************************)
EXTENDS Integers, Sequences, FiniteSets, TLC

None == << >>

Some(v) == << v >>

IsSome(x) == x # None

Val(x) == x[1]

Max(a, b) == IF a >= b THEN a ELSE b

Min(a, b) == IF a <= b THEN a ELSE b

(***************************************************************************)
(* Options and configuration (types.ts, Fisheye.applyDefaults)             *)
(***************************************************************************)

FlatKeys == {"fx", "fy", "cx", "cy", "alpha", "k1", "k2", "k3", "k4", "width", "height"}

SharedKeys == {"balance", "fovScale", "projection"}

GroupedKeys == {"K", "D", "size"}

ModeKeys == {"ptz", "pane"}

OptionKeys == FlatKeys \cup SharedKeys \cup GroupedKeys \cup ModeKeys

\* The fields of the normalized configuration (FisheyeConfig as applyDefaults builds it).
ConfigFields == {"K", "D", "size", "balance", "fovScale", "projection"}

\* DEFAULT_PROJECTION: rectilinear with the P matrix estimated (mode undefined).
DEFAULT_PROJECTION ==
  [kind |-> "rectilinear", mode |-> None, newFx |-> None, newFy |-> None,
   newCx |-> None, newCy |-> None]

ManualProjection ==
  [kind |-> "rectilinear", mode |-> Some("manual"), newFx |-> Some(4), newFy |-> Some(4),
   newCx |-> None, newCy |-> None]

OriginalProjection ==
  [kind |-> "original", mode |-> None, newFx |-> None, newFy |-> None,
   newCx |-> None, newCy |-> None]

EquirectangularProjection ==
  [kind |-> "equirectangular", mode |-> None, newFx |-> None, newFy |-> None,
   newCx |-> None, newCy |-> None]

CylindricalProjection ==
  [kind |-> "cylindrical", mode |-> None, newFx |-> None, newFy |-> None,
   newCx |-> None, newCy |-> None]

\* type FisheyeProjection: one value of each variant.
Projections ==
  {DEFAULT_PROJECTION, ManualProjection, EquirectangularProjection, OriginalProjection,
   CylindricalProjection}

isRectilinearManual(p) == p.kind = "rectilinear" /\ p.mode = Some("manual")

\* validateModeExclusivity(ptz, pane): TRUE iff the function throws.
validateModeExclusivity(ptz, pane) == IsSome(ptz) /\ IsSome(pane)

NoOptions == [k \in OptionKeys |-> None]

\* { ...a, ...b }: every key that b carries overrides a's.
Spread(a, b) == [k \in OptionKeys |-> IF IsSome(b[k]) THEN b[k] ELSE a[k]]

\* The stored configuration seen as an options object ({ ...this.config }).
ConfigAsOptions(c) ==
  [k \in OptionKeys |->
     CASE k = "K" -> c.K
       [] k = "D" -> Some(c.D)
       [] k = "size" -> Some(c.size)
       [] k = "balance" -> Some(c.balance)
       [] k = "fovScale" -> Some(c.fovScale)
       [] k = "projection" -> Some(c.projection)
       [] OTHER -> None]

\* x ?? dflt
OrElse(x, dflt) == IF IsSome(x) THEN Val(x) ELSE dflt

\* Math.max(0, Math.min(1, balance))
ClampBalance(b) == Max(0, Min(1, b))

\* applyDefaults always takes the flat branch (the behaviour before the grouped format).
ApplyDefaultsFlatOnly(options) ==
  [K |-> IF IsSome(options["fx"]) /\ IsSome(options["fy"])
         THEN Some([fx |-> Val(options["fx"]), fy |-> Val(options["fy"]),
                    cx |-> options["cx"], cy |-> options["cy"], alpha |-> options["alpha"]])
         ELSE None,
   D |-> [k1 |-> OrElse(options["k1"], 0), k2 |-> OrElse(options["k2"], 0),
          k3 |-> OrElse(options["k3"], 0), k4 |-> OrElse(options["k4"], 0)],
   size |-> [width |-> OrElse(options["width"], 300), height |-> OrElse(options["height"], 150)],
   balance |-> ClampBalance(OrElse(options["balance"], 0)),
   fovScale |-> OrElse(options["fovScale"], 1),
   projection |-> OrElse(options["projection"], DEFAULT_PROJECTION)]

\* Fisheye.applyDefaults: options carrying both D and size are taken as a grouped
\* config and copied field by field; anything else is read as flat options.
\* Neither branch reads ptz or pane, and neither validates anything.
ApplyDefaults(options) ==
  LET isGrouped == IsSome(options["D"]) /\ IsSome(options["size"])
  IN IF isGrouped
     THEN [K |-> options["K"],
           D |-> Val(options["D"]),
           size |-> Val(options["size"]),
           balance |-> ClampBalance(Val(options["balance"])),
           fovScale |-> Val(options["fovScale"]),
           projection |-> Val(options["projection"])]
     ELSE [K |-> IF IsSome(options["fx"]) /\ IsSome(options["fy"])
                 THEN Some([fx |-> Val(options["fx"]), fy |-> Val(options["fy"]),
                            cx |-> options["cx"], cy |-> options["cy"],
                            alpha |-> options["alpha"]])
                 ELSE None,
           D |-> [k1 |-> OrElse(options["k1"], 0), k2 |-> OrElse(options["k2"], 0),
                  k3 |-> OrElse(options["k3"], 0), k4 |-> OrElse(options["k4"], 0)],
           size |-> [width |-> OrElse(options["width"], 300),
                     height |-> OrElse(options["height"], 150)],
           balance |-> ClampBalance(OrElse(options["balance"], 0)),
           fovScale |-> OrElse(options["fovScale"], 1),
           projection |-> OrElse(options["projection"], DEFAULT_PROJECTION)]

(***************************************************************************)
(* Input families                                                          *)
(***************************************************************************)

K1 == [fx |-> 5, fy |-> 6, cx |-> Some(1), cy |-> None, alpha |-> None]

D1 == [k1 |-> 1, k2 |-> 0, k3 |-> 0, k4 |-> 1]

SmallSize == [width |-> 2, height |-> 2]

WideSize == [width |-> 65, height |-> 2]

ZeroSize == [width |-> 0, height |-> 2]

PTZ1 == [pan |-> 0, tilt |-> 0, zoom |-> 1]

Pane4 == [kind |-> "4pane"]

\* The values an option key takes in the enumerated inputs.
KeyValues(k) ==
  CASE k = "fx" -> {5}
    [] k = "fy" -> {6}
    [] k \in {"cx", "cy", "alpha"} -> {1}
    [] k \in {"k1", "k2", "k3", "k4"} -> {1}
    [] k = "width" -> {0, 2, 65}
    [] k = "height" -> {0, 2}
    [] k = "balance" -> {1, 2}
    [] k = "fovScale" -> {2}
    [] k = "projection" -> {ManualProjection, OriginalProjection}
    [] k = "K" -> {K1}
    [] k = "D" -> {D1}
    [] k = "size" -> {SmallSize, WideSize, ZeroSize}
    [] k = "ptz" -> {PTZ1}
    [] k = "pane" -> {Pane4}

\* Options that name exactly one key of keys.
SingleKeyOptions(keys) ==
  UNION { { [NoOptions EXCEPT ![k] = Some(v)] : v \in KeyValues(k) } : k \in keys }

BothModes == [NoOptions EXCEPT !["ptz"] = Some(PTZ1), !["pane"] = Some(Pane4)]

FlatIntrinsics == [NoOptions EXCEPT !["fx"] = Some(5), !["fy"] = Some(6), !["cx"] = Some(1)]

FlatSizes ==
  { [NoOptions EXCEPT !["width"] = Some(w), !["height"] = Some(h)] :
      w \in KeyValues("width"), h \in KeyValues("height") }

\* A complete grouped config, as the type FisheyeConfig requires it.
GroupedConfigs ==
  { [NoOptions EXCEPT !["K"] = k, !["D"] = Some(D1), !["size"] = Some(sz),
                      !["balance"] = Some(b), !["fovScale"] = Some(1),
                      !["projection"] = Some(DEFAULT_PROJECTION)] :
      k \in {None, Some(K1)}, sz \in {SmallSize, ZeroSize}, b \in {0, 2} }

\* Options given to the constructor: flat options or a complete grouped config.
CtorOptions ==
  {NoOptions, BothModes, FlatIntrinsics}
    \cup SingleKeyOptions(FlatKeys \cup SharedKeys \cup ModeKeys)
    \cup FlatSizes
    \cup GroupedConfigs
    \cup { Spread(g, BothModes) : g \in GroupedConfigs }

\* Partial options given to updateConfig: any key, flat or grouped.
UpdateOptions ==
  {NoOptions, BothModes, FlatIntrinsics}
    \cup SingleKeyOptions(OptionKeys)
    \cup FlatSizes
    \cup { Spread(a, b) : a \in SingleKeyOptions({"k1"}), b \in SingleKeyOptions({"D", "size"}) }

(***************************************************************************)
(* Bounds                                                                  *)
(***************************************************************************)

\* The number of undistort calls made on the instance.
MaxCalls == 3

(***************************************************************************)
(* State                                                                   *)
(***************************************************************************)

VARIABLES
  config,                    \* this.config
  root,                      \* this.root: the TypeGPU root (GPU device), or null
  uniformBuffer,             \* this.uniformBuffer: [id, data], or null
  inputTexture,              \* this.inputTexture: [id, width, height, content], or null
  outputTexture,             \* this.outputTexture: [id, width, height, content], or null
  bindGroup,                 \* this.bindGroup: the ids it was created from, or null
  pipeline,                  \* this.pipeline, or null
  readbackBuffers,           \* this.readbackBuffers: a pair of [id, size, content, mapState], or null
  readbackIndex,             \* this.readbackIndex
  readbackHasData,           \* this.readbackHasData
  readbackBytesPerRow,       \* this.readbackBytesPerRow
  readbackActualBytesPerRow, \* this.readbackActualBytesPerRow
  pixelBuffer,               \* this.pixelBuffer: [length], or null
  inputTextureSize,          \* this.inputTextureSize
  outputTextureSize,         \* this.outputTextureSize
  uniformInputWidth,         \* this.uniformInputWidth
  uniformInputHeight,        \* this.uniformInputHeight
  cachedNewCameraMatrix,     \* this.cachedNewCameraMatrix, or null
  nextId,                    \* the id the next created GPU object gets
  destroyedIds,              \* ids of the GPU objects destroy() was called on
  devicesAcquired,           \* how many times tgpu.init() has resolved
  call,                      \* the undistort call in flight: its position and locals
  call2,                     \* a second undistort call, started while the first is in flight
  nCalls,                    \* undistort calls started so far (the sequence number of the last frame)
  lastOp,                    \* the last public operation: its name, arguments and outcome
  result,                    \* the VideoFrame the last completed undistort returned, if any
  copyLog,                   \* copyLog[n]: the pixels call n copied into its write buffer
  copiesSinceAlloc,          \* texture-to-buffer copies made into the current readback pair
  destroyCalled,             \* destroy() has been called on the instance
  calc                       \* the private helper being evaluated: its arguments and locals

gpuVars ==
  << root, uniformBuffer, inputTexture, outputTexture, bindGroup, pipeline, readbackBuffers,
     readbackIndex, readbackHasData, readbackBytesPerRow, readbackActualBytesPerRow,
     pixelBuffer, inputTextureSize, outputTextureSize, uniformInputWidth,
     uniformInputHeight, cachedNewCameraMatrix >>

envVars == << nextId, destroyedIds, devicesAcquired >>

histVars == << call, call2, nCalls, lastOp, result, copyLog, copiesSinceAlloc, destroyCalled >>

vars == << config, gpuVars, envVars, histVars, calc >>

(***************************************************************************)
(* Uniform data (Fisheye.getUniformData, Fisheye.computeNewCameraMatrix)   *)
(***************************************************************************)

\* A quotient num / den of the floating-point arithmetic, kept unevaluated.
Rat(n, d) == [num |-> n, den |-> d]

\* The fallback is taken whatever a is.
OrIfZeroAlwaysFallback(a, b) == b

\* a || b on numbers: b when a is 0.
OrIfZero(a, b) == IF a # 0 THEN a ELSE b

\* computeNewCameraMatrix(inputWidth, inputHeight): the estimation is a function of
\* the input size and of K, D, balance, fovScale and size of the current config;
\* its result is represented by these arguments.
computeNewCameraMatrix(cfg, inputWidth, inputHeight) ==
  [inputWidth |-> inputWidth, inputHeight |-> inputHeight, K |-> cfg.K, D |-> cfg.D,
   balance |-> cfg.balance, fovScale |-> cfg.fovScale, size |-> cfg.size]

\* this.cachedNewCameraMatrix after getUniformData() has run.
CacheAfterGetUniformData(cfg, uiw, uih, cache) ==
  LET inputWidth == OrIfZero(uiw, cfg.size.width)
      inputHeight == OrIfZero(uih, cfg.size.height)
  IN IF isRectilinearManual(cfg.projection)
     THEN cache
     ELSE IF cache = None \/ uiw # inputWidth \/ uih # inputHeight
          THEN Some(computeNewCameraMatrix(cfg, inputWidth, inputHeight))
          ELSE cache

ProjectionValue(kind) ==
  CASE kind = "rectilinear" -> 0
    [] kind = "equirectangular" -> 1
    [] kind = "original" -> 2
    [] kind = "cylindrical" -> 3

\* The value getUniformData() returns.
getUniformData(cfg, uiw, uih, cache) ==
  LET inputWidth == OrIfZero(uiw, cfg.size.width)
      inputHeight == OrIfZero(uih, cfg.size.height)
      K == cfg.K
      p == cfg.projection
  IN [fx |-> IF IsSome(K) THEN Val(K).fx ELSE inputWidth,
      fy |-> IF IsSome(K) THEN Val(K).fy ELSE inputWidth,
      cx |-> IF IsSome(K) /\ IsSome(Val(K).cx) THEN Rat(Val(Val(K).cx), 1) ELSE Rat(inputWidth, 2),
      cy |-> IF IsSome(K) /\ IsSome(Val(K).cy) THEN Rat(Val(Val(K).cy), 1) ELSE Rat(inputHeight, 2),
      alpha |-> IF IsSome(K) /\ IsSome(Val(K).alpha) THEN Val(Val(K).alpha) ELSE 0,
      D |-> cfg.D,
      newCam |->
        IF isRectilinearManual(p)
        THEN << "manual",
                [newFx |-> Rat(Val(p.newFx) * cfg.size.width, inputWidth),
                 newFy |-> Rat(Val(p.newFy) * cfg.size.height, inputHeight),
                 newCx |-> IF IsSome(p.newCx) THEN Rat(Val(p.newCx), 1) ELSE Rat(cfg.size.width, 2),
                 newCy |-> IF IsSome(p.newCy) THEN Rat(Val(p.newCy), 1) ELSE Rat(cfg.size.height, 2)] >>
        ELSE << "estimated", Val(CacheAfterGetUniformData(cfg, uiw, uih, cache)) >>,
      outputWidth |-> cfg.size.width,
      outputHeight |-> cfg.size.height,
      inputWidth |-> inputWidth,
      inputHeight |-> inputHeight,
      projection |-> ProjectionValue(p.kind)]

\* The row length is rounded down to a multiple of 256.
calculateBytesPerRowFloor(width) ==
  LET unalignedBytesPerRow == width * 4
  IN (unalignedBytesPerRow \div 256) * 256

\* calculateBytesPerRow(width): Math.ceil(width * 4 / 256) * 256
calculateBytesPerRow(width) ==
  LET unalignedBytesPerRow == width * 4
  IN ((unalignedBytesPerRow + 255) \div 256) * 256

\* createReadbackBuffer(device, width, height), given the id of the new buffer
createReadbackBuffer(id, width, height) ==
  [id |-> id, size |-> calculateBytesPerRow(width) * height, content |-> 0,
   mapState |-> "unmapped"]

\* The ids of the objects an optional handle (or pair of handles) refers to.
IdsOf(handle) == IF IsSome(handle) THEN {Val(handle).id} ELSE {}

BufferIds(buffers) == IF IsSome(buffers) THEN {Val(buffers)[1].id, Val(buffers)[2].id} ELSE {}

(***************************************************************************)
(* Construction, updateConfig, destroy                                     *)
(***************************************************************************)

\* No call in flight.  A call in flight holds its frame and the locals of
\* readbackToVideoFrame: the ids of the buffers it captured (const readbackBuffers =
\* this.readbackBuffers), writeIndex, readIndex and the slot of bufferToRead.
Idle ==
  [pc |-> "idle", frame |-> None, buffers |-> << >>, writeIndex |-> 0, readIndex |-> 0,
   readSlot |-> 0]

\* No helper is being evaluated on its own.
NoCalc == [fn |-> "none"]

\* The fields of a new instance (the class's field initializers), with the
\* constructor's this.config = this.applyDefaults(options).
Constructed(options) ==
  /\ config = ApplyDefaults(options)
  /\ root = None
  /\ uniformBuffer = None
  /\ inputTexture = None
  /\ outputTexture = None
  /\ bindGroup = None
  /\ pipeline = None
  /\ readbackBuffers = None
  /\ readbackIndex = 0
  /\ readbackHasData = << FALSE, FALSE >>
  /\ readbackBytesPerRow = 0
  /\ readbackActualBytesPerRow = 0
  /\ pixelBuffer = None
  /\ inputTextureSize = << 0, 0 >>
  /\ outputTextureSize = << 0, 0 >>
  /\ uniformInputWidth = 0
  /\ uniformInputHeight = 0
  /\ cachedNewCameraMatrix = None
  /\ nextId = 1
  /\ destroyedIds = {}
  /\ devicesAcquired = 0
  /\ call = Idle
  /\ call2 = Idle
  /\ nCalls = 0
  /\ lastOp = [op |-> "constructor", options |-> options, frame |-> None,
               outcome |-> "returned"]
  /\ result = None
  /\ copyLog = << >>
  /\ copiesSinceAlloc = 0
  /\ destroyCalled = FALSE
  /\ calc = NoCalc

\* updateConfig tears the output side down whatever the new size is.
OutputSizeChangedAlways(cfg, prevWidth, prevHeight) == TRUE

\* The test of updateConfig: the stored size differs from the one before the merge.
OutputSizeChanged(cfg, prevWidth, prevHeight) ==
  cfg.size.width # prevWidth \/ cfg.size.height # prevHeight

\* updateUniforms allocates a uniform buffer when the instance has none.
updateUniformsAllocates(buffer, data) ==
  Some([id |-> IF IsSome(buffer) THEN Val(buffer).id ELSE 0, data |-> data])

\* updateUniforms(): nothing without a uniform buffer, else
\* this.uniformBuffer.write(this.getUniformData()); data is what getUniformData() returns.
updateUniforms(buffer, data) ==
  IF buffer = None THEN buffer ELSE Some([Val(buffer) EXCEPT !.data = data])

\* updateConfig leaves the cached matrix in place.
CacheKeptByUpdateConfig(cache) == cache

\* updateConfig: this.cachedNewCameraMatrix = null
CacheAfterUpdateConfig(cache) == None

\* updateConfig(options)
updateConfig(options) ==
  LET prevWidth == config.size.width
      prevHeight == config.size.height
      cfg == ApplyDefaults(Spread(ConfigAsOptions(config), options))
      cache == CacheAfterUpdateConfig(cachedNewCameraMatrix)
  IN /\ UNCHANGED calc
     /\ config' = cfg
     \* this.cachedNewCameraMatrix = null; this.updateUniforms()
     /\ uniformBuffer' =
          updateUniforms(uniformBuffer,
                         getUniformData(cfg, uniformInputWidth, uniformInputHeight, cache))
     /\ cachedNewCameraMatrix' =
          IF IsSome(uniformBuffer)
          THEN CacheAfterGetUniformData(cfg, uniformInputWidth, uniformInputHeight, cache)
          ELSE cache
     /\ IF OutputSizeChanged(cfg, prevWidth, prevHeight)
        THEN /\ destroyedIds' = destroyedIds \cup IdsOf(outputTexture) \cup BufferIds(readbackBuffers)
             /\ outputTexture' = None
             /\ readbackBuffers' = None
             /\ readbackIndex' = 0
             /\ readbackHasData' = << FALSE, FALSE >>
             /\ outputTextureSize' = << 0, 0 >>
             /\ readbackBytesPerRow' = 0
             /\ readbackActualBytesPerRow' = 0
             /\ pixelBuffer' = None
        ELSE UNCHANGED << destroyedIds, outputTexture, readbackBuffers, readbackIndex,
                          readbackHasData, outputTextureSize, readbackBytesPerRow,
                          readbackActualBytesPerRow, pixelBuffer >>
     /\ lastOp' = [op |-> "updateConfig", options |-> options, frame |-> None,
                  outcome |-> "returned"]
     /\ UNCHANGED << root, inputTexture, bindGroup, pipeline, inputTextureSize,
                     uniformInputWidth, uniformInputHeight, nextId, devicesAcquired,
                     call, call2, nCalls, result, copyLog, copiesSinceAlloc, destroyCalled >>

\* updateConfig(options), called while no undistort call is in flight.
UpdateConfig(options) == call.pc = "idle" /\ call2.pc = "idle" /\ updateConfig(options)

\* destroy().  root.destroy() destroys the device and with it the uniform buffer and
\* the pipeline created from the root.
destroy ==
  /\ UNCHANGED calc
  /\ destroyedIds' = destroyedIds \cup IdsOf(inputTexture) \cup IdsOf(outputTexture)
                       \cup BufferIds(readbackBuffers) \cup IdsOf(root)
                       \cup (IF IsSome(root) THEN IdsOf(uniformBuffer) \cup IdsOf(pipeline)
                             ELSE {})
  /\ inputTexture' = None
  /\ outputTexture' = None
  /\ readbackBuffers' = None
  /\ readbackIndex' = 0
  /\ readbackHasData' = << FALSE, FALSE >>
  /\ uniformBuffer' = None
  /\ root' = None
  /\ bindGroup' = None
  /\ pipeline' = None
  /\ readbackBytesPerRow' = 0
  /\ readbackActualBytesPerRow' = 0
  /\ pixelBuffer' = None
  /\ inputTextureSize' = << 0, 0 >>
  /\ outputTextureSize' = << 0, 0 >>
  /\ cachedNewCameraMatrix' = None
  /\ destroyCalled' = TRUE
  /\ lastOp' = [op |-> "destroy", options |-> NoOptions, frame |-> None,
               outcome |-> "returned"]
  /\ UNCHANGED << config, uniformInputWidth, uniformInputHeight, nextId, devicesAcquired,
                  call, call2, nCalls, result, copyLog, copiesSinceAlloc >>

\* destroy(), called while no undistort call is in flight.
Destroy == call.pc = "idle" /\ call2.pc = "idle" /\ destroy

(***************************************************************************)
(* undistort(frame): initialize, the frame body, the double-buffered       *)
(* readback.  The call is suspended at its three awaits (tgpu.init(),      *)
(* onSubmittedWorkDone(), mapAsync()); each action runs from one           *)
(* suspension point to the next.                                           *)
(***************************************************************************)

\* Input frames: display size and timestamp.
Frames ==
  { [displayWidth |-> w, displayHeight |-> 2, timestamp |-> t] : w \in {2, 4}, t \in {10, 20} }

\* The call ends by throwing.
Throws(cNext) ==
  /\ cNext = Idle
  /\ lastOp' = [lastOp EXCEPT !.outcome = "threw"]
  /\ result' = None

\* initialize() never returns early: every call acquires a device again.
InitializeAlwaysAcquires(r) == FALSE

\* The test at the head of initialize(): if (this.root) return.
InitializeReturnsEarly(r) == IsSome(r)

\* undistort(frame) up to the await inside initialize(): with a root present
\* initialize() returns at once, otherwise it waits for tgpu.init().
UndistortCallStep(c, cNext, frame) ==
  /\ c.pc = "idle"
  /\ UNCHANGED calc
  /\ nCalls < MaxCalls
  /\ nCalls' = nCalls + 1
  /\ cNext = [Idle EXCEPT !.pc = IF InitializeReturnsEarly(root) THEN "initialized"
                                ELSE "acquiring",
                          !.frame = Some([seq |-> nCalls + 1,
                                          displayWidth |-> frame.displayWidth,
                                          displayHeight |-> frame.displayHeight,
                                          timestamp |-> frame.timestamp])]
  /\ lastOp' = [op |-> "undistort", options |-> NoOptions, frame |-> Some(frame),
               outcome |-> "pending"]
  /\ result' = None
  /\ UNCHANGED << config, gpuVars, envVars, copyLog, copiesSinceAlloc, destroyCalled >>

\* undistort(frame), the call under observation.
UndistortCall(frame) == UndistortCallStep(call, call', frame) /\ UNCHANGED call2

\* undistort(frame) called again while the first call is still in flight.
OverlappingCall(frame) ==
  call.pc # "idle" /\ UndistortCallStep(call2, call2', frame) /\ UNCHANGED call

\* initialize() after tgpu.init() has resolved: the root, the uniform buffer
\* (created with getUniformData()) and the compute pipeline.
InitializeResumeStep(c, cNext) ==
  /\ c.pc = "acquiring"
  /\ UNCHANGED calc
  /\ root' = Some([id |-> nextId])
  /\ devicesAcquired' = devicesAcquired + 1
  /\ uniformBuffer' =
       Some([id |-> nextId + 1,
             data |-> getUniformData(config, uniformInputWidth, uniformInputHeight,
                                     cachedNewCameraMatrix)])
  /\ cachedNewCameraMatrix' =
       CacheAfterGetUniformData(config, uniformInputWidth, uniformInputHeight,
                                cachedNewCameraMatrix)
  /\ pipeline' = Some([id |-> nextId + 2])
  /\ nextId' = nextId + 3
  /\ cNext = [c EXCEPT !.pc = "initialized"]
  /\ UNCHANGED << config, inputTexture, outputTexture, bindGroup, readbackBuffers,
                  readbackIndex, readbackHasData, readbackBytesPerRow,
                  readbackActualBytesPerRow, pixelBuffer, inputTextureSize,
                  outputTextureSize, uniformInputWidth, uniformInputHeight, destroyedIds,
                  nCalls, lastOp, result, copyLog, copiesSinceAlloc, destroyCalled >>

InitializeResume == InitializeResumeStep(call, call') /\ UNCHANGED call2

\* The overlapping call's initialize() resumes.
InitializeResume2 == InitializeResumeStep(call2, call2') /\ UNCHANGED call

\* The input texture is recreated for every frame.
InputTextureRecreatedAlways(texture, size, displayWidth, displayHeight) == TRUE

\* if (!this.inputTexture || this.inputTextureSize[0] !== frame.displayWidth ||
\*     this.inputTextureSize[1] !== frame.displayHeight)
InputTextureStale(texture, size, displayWidth, displayHeight) ==
  texture = None \/ size[1] # displayWidth \/ size[2] # displayHeight

\* The steps of initialize() that can fail: tgpu.init() rejects, createBuffer throws,
\* createGuardedComputePipeline throws.
InitializeSteps == {"init", "createBuffer", "createPipeline"}

\* initialize() failing at one of its steps: the assignments made before the step
\* stay, the error leaves undistort through its await of initialize().
\* getUniformData() is evaluated as the argument of createBuffer, before the call.
InitializeFailsStep(c, cNext, step) ==
  /\ c.pc = "acquiring"
  /\ UNCHANGED calc
  /\ Throws(cNext)
  /\ IF step = "init"
     THEN UNCHANGED << root, devicesAcquired, uniformBuffer, cachedNewCameraMatrix, nextId >>
     ELSE /\ root' = Some([id |-> nextId])
          /\ devicesAcquired' = devicesAcquired + 1
          /\ cachedNewCameraMatrix' =
               CacheAfterGetUniformData(config, uniformInputWidth, uniformInputHeight,
                                        cachedNewCameraMatrix)
          /\ IF step = "createBuffer"
             THEN /\ uniformBuffer' = uniformBuffer
                  /\ nextId' = nextId + 1
             ELSE /\ uniformBuffer' =
                       Some([id |-> nextId + 1,
                             data |-> getUniformData(config, uniformInputWidth,
                                                     uniformInputHeight,
                                                     cachedNewCameraMatrix)])
                  /\ nextId' = nextId + 2
  /\ UNCHANGED << config, inputTexture, outputTexture, bindGroup, pipeline, readbackBuffers,
                  readbackIndex, readbackHasData, readbackBytesPerRow,
                  readbackActualBytesPerRow, pixelBuffer, inputTextureSize,
                  outputTextureSize, uniformInputWidth, uniformInputHeight, destroyedIds,
                  nCalls, copyLog, copiesSinceAlloc, destroyCalled >>

InitializeFails(step) == InitializeFailsStep(call, call', step) /\ UNCHANGED call2

\* A new output texture leaves the bind group in place.
BindGroupInvalidatedByInputOnly(newInput, newOutput, group) == newInput \/ group = None

\* if (!this.bindGroup), after this.bindGroup = null wherever a texture was recreated.
BindGroupInvalidated(newInput, newOutput, group) == newInput \/ newOutput \/ group = None

\* undistort after initialize(): textures, uniforms, bind group, dispatch, and
\* readbackToVideoFrame up to its await of onSubmittedWorkDone().
UndistortBodyStep(c, cNext) ==
  /\ c.pc = "initialized"
  /\ UNCHANGED calc
  /\ IF root = None \/ uniformBuffer = None
     THEN \* throw new Error("GPU resources not initialized")
          /\ Throws(cNext)
          /\ UNCHANGED << config, gpuVars, envVars, nCalls, copyLog, copiesSinceAlloc,
                          destroyCalled >>
     ELSE
       LET frame == Val(c.frame)
           fw == frame.displayWidth
           fh == frame.displayHeight
           cw == config.size.width
           ch == config.size.height
           \* input texture: recreated when absent or of another size
           newInput == InputTextureStale(inputTexture, inputTextureSize, fw, fh)
           idA == IF newInput THEN nextId + 1 ELSE nextId
           inTex == IF newInput
                    THEN [id |-> nextId, width |-> fw, height |-> fh, content |-> 0]
                    ELSE Val(inputTexture)
           \* output texture, readback buffers, pixel buffer: recreated with the output size
           newOutput == outputTexture = None \/ outputTextureSize[1] # cw
                          \/ outputTextureSize[2] # ch
           idB == IF newOutput THEN idA + 3 ELSE idA
           outTex == IF newOutput
                     THEN [id |-> idA, width |-> cw, height |-> ch, content |-> 0]
                     ELSE Val(outputTexture)
           bufs == IF newOutput
                   THEN Some(<< createReadbackBuffer(idA + 1, cw, ch),
                                createReadbackBuffer(idA + 2, cw, ch) >>)
                   ELSE readbackBuffers
           index == IF newOutput THEN 0 ELSE readbackIndex
           \* inputTexture.write(frame)
           written == [inTex EXCEPT !.content = frame.seq]
           \* the uniform input size follows the frame; a change drops the cached matrix
           newUniformInput == uniformInputWidth # fw \/ uniformInputHeight # fh
           cache == IF newUniformInput THEN None ELSE cachedNewCameraMatrix
           \* the bind group: rebuilt when one of the textures was recreated
           newBind == BindGroupInvalidated(newInput, newOutput, bindGroup)
           idC == IF newBind THEN idB + 1 ELSE idB
           bind == IF newBind
                   THEN [id |-> idB, inputTexture |-> inTex.id, outputTexture |-> outTex.id,
                         uniforms |-> Val(uniformBuffer).id]
                   ELSE Val(bindGroup)
           \* dispatchThreads: the kernel reads the bound input texture and writes
           \* the bound output texture
           rendered == IF bind.inputTexture = inTex.id /\ bind.outputTexture = outTex.id
                       THEN [outTex EXCEPT !.content = written.content]
                       ELSE outTex
           \* readbackToVideoFrame: copyTextureToBuffer into the write buffer, submit
           writeIndex == index
           readIndex == 1 - writeIndex
           \* a command buffer that writes a buffer which is not unmapped fails
           \* validation at submit: the copy does not happen
           copied == IF bufs = None THEN FALSE
                     ELSE Val(bufs)[writeIndex + 1].mapState = "unmapped"
       IN /\ inputTexture' = Some(written)
          /\ inputTextureSize' = IF newInput THEN << fw, fh >> ELSE inputTextureSize
          /\ destroyedIds' =
               destroyedIds
                 \cup (IF newInput THEN IdsOf(inputTexture) ELSE {})
                 \cup (IF newOutput THEN IdsOf(outputTexture) \cup BufferIds(readbackBuffers)
                       ELSE {})
          /\ readbackBytesPerRow' =
               IF newOutput THEN calculateBytesPerRow(cw) ELSE readbackBytesPerRow
          /\ readbackActualBytesPerRow' =
               IF newOutput THEN cw * 4 ELSE readbackActualBytesPerRow
          /\ pixelBuffer' = IF newOutput THEN Some([length |-> cw * ch * 4]) ELSE pixelBuffer
          /\ readbackIndex' = index
          /\ readbackHasData' = IF newOutput THEN << FALSE, FALSE >> ELSE readbackHasData
          /\ outputTextureSize' = IF newOutput THEN << cw, ch >> ELSE outputTextureSize
          /\ uniformInputWidth' = fw
          /\ uniformInputHeight' = fh
          /\ uniformBuffer' = updateUniforms(uniformBuffer, getUniformData(config, fw, fh, cache))
          /\ cachedNewCameraMatrix' = CacheAfterGetUniformData(config, fw, fh, cache)
          /\ bindGroup' = Some(bind)
          /\ nextId' = idC
          /\ UNCHANGED << config, root, pipeline, devicesAcquired, nCalls, destroyCalled >>
          /\ IF pipeline = None \/ bufs = None
             THEN \* throw new Error("Compute pipeline or output texture not initialized"),
                  \* or, after the dispatch, throw new Error("Readback buffer not initialized")
                  /\ Throws(cNext)
                  /\ outputTexture' = Some(IF pipeline = None THEN outTex ELSE rendered)
                  /\ readbackBuffers' = bufs
                  /\ copiesSinceAlloc' = IF newOutput THEN 0 ELSE copiesSinceAlloc
                  /\ copyLog' = Append(copyLog, 0)
             ELSE /\ outputTexture' = Some(rendered)
                  /\ readbackBuffers' =
                       IF copied
                       THEN Some([Val(bufs) EXCEPT
                                    ![writeIndex + 1].content = rendered.content])
                       ELSE bufs
                  /\ copiesSinceAlloc' =
                       (IF newOutput THEN 0 ELSE copiesSinceAlloc) + (IF copied THEN 1 ELSE 0)
                  /\ copyLog' = Append(copyLog, IF copied THEN rendered.content ELSE 0)
                  /\ cNext = [c EXCEPT !.pc = "submitted",
                                       !.buffers = << Val(bufs)[1].id, Val(bufs)[2].id >>,
                                       !.writeIndex = writeIndex, !.readIndex = readIndex]
                  /\ UNCHANGED << lastOp, result >>

UndistortBody == UndistortBodyStep(call, call') /\ UNCHANGED call2

\* The overlapping call's frame body.
UndistortBody2 == UndistortBodyStep(call2, call2') /\ UNCHANGED call

\* The read buffer is never used: the buffer just written is always the one mapped.
BufferToReadAlwaysWritten(hasData, readIndex, writeIndex) == writeIndex

\* bufferToRead: the read slot when it holds data, else the slot just written.
BufferToRead(hasData, readIndex, writeIndex) ==
  IF hasData[readIndex + 1] THEN readIndex ELSE writeIndex

\* Both slots are marked as holding data.
MarkWrittenBoth(hasData, writeIndex) == << TRUE, TRUE >>

\* this.readbackHasData[writeIndex] = true
MarkWritten(hasData, writeIndex) == [hasData EXCEPT ![writeIndex + 1] = TRUE]

\* The buffer object with this id, when the instance still holds it.
HeldBuffer(id, buffers) ==
  IF buffers = None THEN None
  ELSE IF Val(buffers)[1].id = id THEN Some(Val(buffers)[1])
  ELSE IF Val(buffers)[2].id = id THEN Some(Val(buffers)[2])
  ELSE None

\* bufferToRead.mapAsync(GPUMapMode.READ) rejects when the buffer has been destroyed
\* or is not unmapped (a map is pending, or the buffer is mapped).  A pair the
\* instance has let go of has always been destroyed first.
MapAsyncRejects(id, buffers, destroyed) ==
  \/ id \in destroyed
  \/ HeldBuffer(id, buffers) = None
  \/ Val(HeldBuffer(id, buffers)).mapState # "unmapped"

\* readbackToVideoFrame after onSubmittedWorkDone(): mark the write slot, swap the
\* index, choose the buffer to read (of the pair captured before the await) and
\* start mapAsync on it.
WorkDoneStep(c, cNext) ==
  /\ c.pc = "submitted"
  /\ UNCHANGED calc
  /\ LET hasData == MarkWritten(readbackHasData, c.writeIndex)
         slot == BufferToRead(hasData, c.readIndex, c.writeIndex)
         bufferToRead == c.buffers[slot + 1]
     IN /\ readbackHasData' = hasData
        /\ readbackIndex' = c.readIndex
        /\ IF MapAsyncRejects(bufferToRead, readbackBuffers, destroyedIds)
           THEN /\ Throws(cNext)
                /\ UNCHANGED readbackBuffers
           ELSE /\ readbackBuffers' =
                     Some([Val(readbackBuffers) EXCEPT ![slot + 1].mapState = "pending"])
                /\ cNext = [c EXCEPT !.pc = "mapping", !.readSlot = slot]
                /\ UNCHANGED << lastOp, result >>
  /\ UNCHANGED << config, root, uniformBuffer, inputTexture, outputTexture, bindGroup,
                  pipeline, readbackBytesPerRow, readbackActualBytesPerRow, pixelBuffer,
                  inputTextureSize, outputTextureSize, uniformInputWidth,
                  uniformInputHeight, cachedNewCameraMatrix, envVars, nCalls,
                  copyLog, copiesSinceAlloc, destroyCalled >>

WorkDone == WorkDoneStep(call, call') /\ UNCHANGED call2

\* The overlapping call resumes after onSubmittedWorkDone().
WorkDone2 == WorkDoneStep(call2, call2') /\ UNCHANGED call

\* The returned frame always carries timestamp 0.
NewVideoFrameNoTimestamp(pixels, codedWidth, codedHeight, timestamp) ==
  [pixels |-> pixels, codedWidth |-> codedWidth, codedHeight |-> codedHeight,
   timestamp |-> 0]

\* new VideoFrame(pixelData, { format: "RGBA", codedWidth, codedHeight, timestamp })
NewVideoFrame(pixels, codedWidth, codedHeight, timestamp) ==
  [pixels |-> pixels, codedWidth |-> codedWidth, codedHeight |-> codedHeight,
   timestamp |-> timestamp]

\* The buffer is left mapped.
unmapSkipped(buffer) == [buffer EXCEPT !.mapState = "mapped"]

\* bufferToRead.unmap()
unmap(buffer) == [buffer EXCEPT !.mapState = "unmapped"]

\* readbackToVideoFrame after mapAsync() has settled: copy the rows of the mapped buffer into
\* the pixel buffer, unmap, and wrap the pixels in a VideoFrame.  The VideoFrame
\* constructor rejects a coded width or height of 0 with a TypeError.
MapResolvedStep(c, cNext) ==
  /\ c.pc = "mapping"
  /\ UNCHANGED calc
  /\ LET bufferToRead == c.buffers[c.readSlot + 1]
         ts == Val(c.frame).timestamp
     IN IF bufferToRead \in destroyedIds
        THEN \* the buffer was destroyed while the map was pending: mapAsync rejects
             /\ Throws(cNext)
             /\ UNCHANGED readbackBuffers
        ELSE LET buffer == Val(readbackBuffers)[c.readSlot + 1]
             IN /\ readbackBuffers' =
                     Some([Val(readbackBuffers) EXCEPT ![c.readSlot + 1] = unmap(buffer)])
                /\ IF config.size.width = 0 \/ config.size.height = 0
                   THEN Throws(cNext)
                   ELSE /\ result' = Some(NewVideoFrame(buffer.content, config.size.width,
                                                        config.size.height, ts))
                        /\ lastOp' = [lastOp EXCEPT !.outcome = "returned"]
                        /\ cNext = Idle
  /\ UNCHANGED << config, root, uniformBuffer, inputTexture, outputTexture, bindGroup,
                  pipeline, readbackIndex, readbackHasData, readbackBytesPerRow,
                  readbackActualBytesPerRow, pixelBuffer, inputTextureSize,
                  outputTextureSize, uniformInputWidth, uniformInputHeight,
                  cachedNewCameraMatrix, envVars, nCalls, copyLog, copiesSinceAlloc,
                  destroyCalled >>

MapResolved == MapResolvedStep(call, call') /\ UNCHANGED call2

\* The overlapping call resumes after mapAsync().
MapResolved2 == MapResolvedStep(call2, call2') /\ UNCHANGED call

(***************************************************************************)
(* The focal length of the estimated camera matrix                         *)
(* (Fisheye.computeNewCameraMatrix, from the four candidates f1..f4 on).   *)
(* Quotients are exact: a number is a pair Rat(num, den) with den > 0.     *)
(***************************************************************************)

\* The balance takes the values 0, 1/BalanceSteps, ..., 1.
BalanceSteps == 4

\* The candidates f1..f4 are drawn from 1..MaxFocal.
MaxFocal == 3

RatAdd(x, y) == Rat(x.num * y.den + y.num * x.den, x.den * y.den)

RatSub(x, y) == Rat(x.num * y.den - y.num * x.den, x.den * y.den)

RatMul(x, y) == Rat(x.num * y.num, x.den * y.den)

RatEq(x, y) == x.num * y.den = y.num * x.den

\* const fMin = Math.min(f1, f2, f3, f4)
fMin(f1, f2, f3, f4) == Min(Min(f1, f2), Min(f3, f4))

\* const fMax = Math.max(f1, f2, f3, f4)
fMax(f1, f2, f3, f4) == Max(Max(f1, f2), Max(f3, f4))

\* The weights of fMin and fMax exchanged.
NewFocalSwapped(f1, f2, f3, f4, balance, fovScale) ==
  LET lo == Rat(fMin(f1, f2, f3, f4), 1)
      hi == Rat(fMax(f1, f2, f3, f4), 1)
      f == RatAdd(RatMul(balance, hi), RatMul(RatSub(Rat(1, 1), balance), lo))
  IN IF fovScale > 0 THEN RatMul(f, Rat(1, fovScale)) ELSE f

\* let f = balance * fMin + (1.0 - balance) * fMax; if (fovScale > 0) f *= 1.0 / fovScale
NewFocal(f1, f2, f3, f4, balance, fovScale) ==
  LET lo == Rat(fMin(f1, f2, f3, f4), 1)
      hi == Rat(fMax(f1, f2, f3, f4), 1)
      f == RatAdd(RatMul(balance, lo), RatMul(RatSub(Rat(1, 1), balance), hi))
  IN IF fovScale > 0 THEN RatMul(f, Rat(1, fovScale)) ELSE f

\* computeNewCameraMatrix from the candidates on: the focal length f.
EstimateFocal(f1, f2, f3, f4, balance, fovScale) ==
  /\ calc = NoCalc
  /\ calc' = [fn |-> "computeNewCameraMatrix", f1 |-> f1, f2 |-> f2, f3 |-> f3, f4 |-> f4,
              balance |-> balance, fovScale |-> fovScale,
              f |-> NewFocal(f1, f2, f3, f4, balance, fovScale)]
  /\ UNCHANGED << config, gpuVars, envVars, histVars >>

(***************************************************************************)
(* Row alignment and the row copy of the readback                          *)
(* (Fisheye.calculateBytesPerRow, the loop of readbackToVideoFrame).       *)
(* A byte of the mapped buffer is identified by its offset in the buffer;  *)
(* a byte of the pixel data the loop has not written is -1.                *)
(***************************************************************************)

\* calculateBytesPerRow is evaluated on the widths 1..MaxWidth.
MaxWidth == 260

\* The row copy is run on outputs of 1..MaxCopyHeight rows.
MaxCopyHeight == 3

\* The output widths the row copy is run on: rows of one 256-byte block with and
\* without padding, and rows of two blocks.
CopyWidths == {1, 2, 3, 64, 65}

\* calculateBytesPerRow(width) called on its own.
CalculateBytesPerRow(width) ==
  /\ calc = NoCalc
  /\ calc' = [fn |-> "calculateBytesPerRow", width |-> width,
              bytesPerRow |-> calculateBytesPerRow(width)]
  /\ UNCHANGED << config, gpuVars, envVars, histVars >>

\* new Uint8Array(mappedData): the byte at an offset of the mapped buffer.
srcView(offset) == offset

\* The rows are read as if the mapped buffer were tightly packed.
srcOffsetPacked(row, bytesPerRow, actualBytesPerRow) == row * actualBytesPerRow

\* const srcOffset = row * this.readbackBytesPerRow
srcOffset(row, bytesPerRow, actualBytesPerRow) == row * bytesPerRow

\* const dstOffset = row * this.readbackActualBytesPerRow
dstOffset(row, actualBytesPerRow) == row * actualBytesPerRow

\* readbackToVideoFrame once the buffer is mapped, for an output of width x height
\* whose buffers undistort allocated: the pixel buffer and the two row lengths.
StartRowCopy(width, height) ==
  /\ calc = NoCalc
  /\ calc' = [fn |-> "readbackToVideoFrame", width |-> width, height |-> height,
              readbackBytesPerRow |-> calculateBytesPerRow(width),
              readbackActualBytesPerRow |-> width * 4,
              mappedSize |-> calculateBytesPerRow(width) * height,
              row |-> 0,
              pixelData |-> [i \in 0..(width * height * 4 - 1) |-> -1]]
  /\ UNCHANGED << config, gpuVars, envVars, histVars >>

\* One iteration of the loop: pixelData.set(srcView.subarray(srcOffset,
\* srcOffset + readbackActualBytesPerRow), dstOffset).
CopyRow ==
  /\ calc.fn = "readbackToVideoFrame"
  /\ calc.row < calc.height
  /\ LET from == srcOffset(calc.row, calc.readbackBytesPerRow, calc.readbackActualBytesPerRow)
         to == dstOffset(calc.row, calc.readbackActualBytesPerRow)
         \* subarray clamps its end to the length of the view
         count == Min(calc.readbackActualBytesPerRow, Max(0, calc.mappedSize - from))
     IN calc' = [calc EXCEPT
                   !.row = calc.row + 1,
                   !.pixelData = [i \in DOMAIN calc.pixelData |->
                                    IF to <= i /\ i < to + count
                                    THEN srcView(from + (i - to))
                                    ELSE calc.pixelData[i]]]
  /\ UNCHANGED << config, gpuVars, envVars, histVars >>

(***************************************************************************)
(* The distortion polynomial: forward in the compute kernel, inverse by    *)
(* Newton's method in Fisheye.undistortPointNormalized.                    *)
(* Numbers are fixed-point: the integer n stands for n / Scale, and every  *)
(* product and quotient is rounded to the nearest multiple of 1 / Scale.   *)
(* The thresholds 1e-8 and 1e-10 of the code lie below that resolution:    *)
(* "less than 1e-8" reads "is 0", max(r, 1e-8) is the least positive       *)
(* number when r is 0.                                                     *)
(***************************************************************************)

\* The resolution of the fixed-point numbers.
Scale == 1000

Abs(x) == IF x >= 0 THEN x ELSE -x

\* n / d for d > 0, rounded to the nearest integer.
Round(n, d) == (2 * n + d) \div (2 * d)

FxMul(a, b) == Round(a * b, Scale)

FxDiv(a, b) == IF b > 0 THEN Round(a * Scale, b) ELSE -Round(a * Scale, -b)

\* Math.PI / 2
PiHalf == (15708 * Scale) \div 10000

RECURSIVE SqrtBetween(_, _, _)
\* The greatest k in lo..hi with k * k <= n, by bisection.
SqrtBetween(n, lo, hi) ==
  IF lo = hi THEN lo
  ELSE LET mid == (lo + hi + 1) \div 2
       IN IF mid * mid <= n THEN SqrtBetween(n, mid, hi) ELSE SqrtBetween(n, lo, mid - 1)

\* std.sqrt(x * x + y * y); the squares of coordinates beyond 30 are taken at a
\* resolution 64 times coarser.
Hypot(x, y) ==
  IF Abs(x) + Abs(y) <= 30 * Scale
  THEN SqrtBetween(x * x + y * y, 0, Abs(x) + Abs(y))
  ELSE LET xc == x \div 64
           yc == y \div 64
       IN 64 * SqrtBetween(xc * xc + yc * yc, 0, Abs(xc) + Abs(yc))

\* atan on [0, 1]: x * (pi/4 + 0.273 * (1 - x)), within 0.005 of the arc tangent.
AtanUnit(x) == FxMul(x, (7854 * Scale) \div 10000 + FxMul((273 * Scale) \div 1000, Scale - x))

\* std.atan(r) for r >= 0
Atan(r) == IF r <= Scale THEN AtanUnit(r) ELSE PiHalf - AtanUnit(FxDiv(Scale, r))

\* tan by the first terms of its series: x + x^3/3 + 2x^5/15.
Tan(x) ==
  LET x2 == FxMul(x, x)
      x3 == FxMul(x2, x)
      x5 == FxMul(x3, x2)
  IN x + Round(x3, 3) + Round(2 * x5, 15)

\* 1 + k1 * theta2 + k2 * theta4 + k3 * theta6 + k4 * theta8
DistortionPolynomial(theta, D) ==
  LET theta2 == FxMul(theta, theta)
      theta4 == FxMul(theta2, theta2)
      theta6 == FxMul(theta4, theta2)
      theta8 == FxMul(theta4, theta4)
  IN Scale + FxMul(D.k1, theta2) + FxMul(D.k2, theta4) + FxMul(D.k3, theta6)
       + FxMul(D.k4, theta8)

\* 1 + 3 * k1 * theta2 + 5 * k2 * theta4 + 7 * k3 * theta6 + 9 * k4 * theta8
DistortionDerivative(theta, D) ==
  LET theta2 == FxMul(theta, theta)
      theta4 == FxMul(theta2, theta2)
      theta6 == FxMul(theta4, theta2)
      theta8 == FxMul(theta4, theta4)
  IN Scale + FxMul(3 * D.k1, theta2) + FxMul(5 * D.k2, theta4) + FxMul(7 * D.k3, theta6)
       + FxMul(9 * D.k4, theta8)

\* The kernel's thetaD = theta * (1 + k1 * theta2 + ...)
Distort(theta, D) == FxMul(theta, DistortionPolynomial(theta, D))

\* The scale of the earlier kernel: rDistorted = tan(thetaDistorted), scale = rDistorted / r.
KernelScaleTan(thetaD, safeR) == FxDiv(Tan(thetaD), safeR)

\* const scale = thetaD / safeR
KernelScale(thetaD, safeR) == FxDiv(thetaD, safeR)

\* The kernel from the normalized point (normX, normY) to the distorted point.
ForwardDistort(normX, normY, D) ==
  LET r == Hypot(normX, normY)
      theta == Atan(r)
      thetaD == Distort(theta, D)
      safeR == Max(r, 1)
      scale == KernelScale(thetaD, safeR)
  IN [r |-> r, theta |-> theta, thetaD |-> thetaD, scale |-> scale,
      distortedX |-> FxMul(normX, scale), distortedY |-> FxMul(normY, scale)]

\* Math.min(Math.max(-Math.PI / 2, thetaD), Math.PI / 2)
thetaDClipped(thetaD) == Min(Max(-PiHalf, thetaD), PiHalf)

RECURSIVE NewtonLoop(_, _, _, _)
\* The loop of undistortPointNormalized from iteration i on: the theta it ends with,
\* or None when a division by a zero fPrime has made theta non-finite.
NewtonLoop(theta, clipped, D, i) ==
  IF i >= 20 THEN Some(theta)
  ELSE LET f == FxMul(theta, DistortionPolynomial(theta, D)) - clipped
           fPrime == DistortionDerivative(theta, D)
       IN IF fPrime = 0 THEN None
          ELSE LET thetaFix == FxDiv(f, fPrime)
               IN IF thetaFix = 0 THEN Some(theta - thetaFix)
                  ELSE NewtonLoop(theta - thetaFix, clipped, D, i + 1)

\* undistortPointNormalized for a distorted point at distance thetaD from the
\* origin: the angle theta whose tangent scales the point.
undistortAngle(thetaD, D) ==
  IF thetaDClipped(thetaD) = 0 THEN Some(thetaDClipped(thetaD))
  ELSE NewtonLoop(thetaDClipped(thetaD), thetaDClipped(thetaD), D, 0)

\* The coefficient sets: k1 in {-0.1, 0, 0.1}, k2, k3, k4 in {0, 0.1}.
DistortionSets ==
  { [k1 |-> a, k2 |-> b, k3 |-> c, k4 |-> d] :
      a \in {-(Scale \div 10), 0, Scale \div 10}, b, c, d \in {0, Scale \div 10} }

\* The coordinates of the normalized points: -2, -1, -1/2, 0, 1/2, 1, 2.
NormCoordinates == {-2 * Scale, -Scale, -(Scale \div 2), 0, Scale \div 2, Scale, 2 * Scale}

\* The angles 0.1, 0.2, ..., 1.5 of (0, pi/2).
Angles == { i * (Scale \div 10) : i \in 1..15 }

\* The kernel's forward distortion of one normalized point.
KernelDistort(normX, normY, D) ==
  /\ calc = NoCalc
  /\ calc' = [fn |-> "kernel", normX |-> normX, normY |-> normY, D |-> D,
              out |-> ForwardDistort(normX, normY, D)]
  /\ UNCHANGED << config, gpuVars, envVars, histVars >>

\* The angle theta distorted as the kernel does and undistorted as
\* undistortPointNormalized does.
RoundTrip(theta, D) ==
  /\ calc = NoCalc
  /\ calc' = [fn |-> "undistortPointNormalized", theta |-> theta, D |-> D,
              thetaD |-> Distort(theta, D),
              recovered |-> undistortAngle(Distort(theta, D), D)]
  /\ UNCHANGED << config, gpuVars, envVars, histVars >>

(***************************************************************************)
(* The compute kernel (the callback of createGuardedComputePipeline) and   *)
(* one dispatch of it (this.pipeline.with(bindGroup).dispatchThreads).     *)
(* Numbers are fixed-point as above; a pixel coordinate n is n * Scale.    *)
(* The output texture of a dispatch is the sequence of values stored at    *)
(* each coordinate; texel (i, j) of the input texture has the colour       *)
(* 1 + i + j * inputWidth, so that no texel is black.                      *)
(***************************************************************************)

\* Output textures are up to MaxOutputSide pixels wide and high.
MaxOutputSide == 3

\* A dispatch runs the kernel on GridPadding more columns and rows than the output
\* has (the thread grid is rounded up to whole workgroups).
GridPadding == 1

\* Math.PI, Math.PI * 2.0
Pi == (31416 * Scale) \div 10000

TwoPi == (62832 * Scale) \div 10000

\* cos on [-pi/2, pi/2] by its series up to x^8.
CosSeries(x) ==
  LET x2 == FxMul(x, x)
      x4 == FxMul(x2, x2)
      x6 == FxMul(x4, x2)
      x8 == FxMul(x4, x4)
  IN Scale - Round(x2, 2) + Round(x4, 24) - Round(x6, 720) + Round(x8, 40320)

\* sin on [0, pi/2] by its series up to x^9.
SinSeries(x) ==
  LET x2 == FxMul(x, x)
      x3 == FxMul(x2, x)
      x5 == FxMul(x3, x2)
      x7 == FxMul(x5, x2)
      x9 == FxMul(x7, x2)
  IN x - Round(x3, 6) + Round(x5, 120) - Round(x7, 5040) + Round(x9, 362880)

\* std.cos(x) for x in [-pi, pi]
Cos(x) == IF Abs(x) <= PiHalf THEN CosSeries(Abs(x)) ELSE -CosSeries(Pi - Abs(x))

\* std.sin(x) for x in [-pi, pi]
Sin(x) ==
  LET s == IF Abs(x) <= PiHalf THEN SinSeries(Abs(x)) ELSE SinSeries(Pi - Abs(x))
  IN IF x >= 0 THEN s ELSE -s

\* std.atan(x) for any x
AtanSigned(x) == IF x >= 0 THEN Atan(x) ELSE -Atan(-x)

\* std.floor(x)
Floor(x) == (x \div Scale) * Scale

\* std.clamp(x, lo, hi)
Clamp(x, lo, hi) == Min(Max(x, lo), hi)

\* std.mix(a, b, t)
Mix(a, b, t) == FxMul(a, Scale - t) + FxMul(b, t)

\* d.vec4f(0.0, 0.0, 0.0, 1.0)
OpaqueBlack == [rgb |-> 0, a |-> Scale]

\* std.textureLoad(inputTexture, (i, j), 0) on a texture of inputWidth x inputHeight;
\* a load outside the texture returns zeros.
textureLoad(inputWidth, inputHeight, i, j) ==
  IF i \in 0..(inputWidth - 1) /\ j \in 0..(inputHeight - 1)
  THEN [rgb |-> (1 + i + j * inputWidth) * Scale, a |-> Scale]
  ELSE [rgb |-> 0, a |-> 0]

\* No invocation returns at the head of the kernel.
OutsideOutputNever(coordXf, coordYf, outputW, outputH) == FALSE

\* if (coordXf >= outputW || coordYf >= outputH) return
OutsideOutput(coordXf, coordYf, outputW, outputH) == coordXf >= outputW \/ coordYf >= outputH

\* The texel index is not clamped to the texture.
TexelIndexUnclamped(x, max) == x \div Scale

\* d.i32(std.clamp(x, 0.0, max))
TexelIndex(x, max) == Clamp(x, 0, max) \div Scale

\* The point of the normalized image plane in the direction (dirX, dirY, dirZ);
\* a direction that does not point forwards is not a valid projection.
NormalizeDirection(dirX, dirY, dirZ) ==
  IF dirZ > Scale \div 1000
  THEN [validProjection |-> TRUE, normX |-> FxDiv(dirX, dirZ), normY |-> FxDiv(dirY, dirZ)]
  ELSE [validProjection |-> FALSE, normX |-> 0, normY |-> 0]

\* The normalized point seen at longitude lon and latitude lat.
SphericalNormalized(lon, lat) ==
  NormalizeDirection(FxMul(Sin(lon), Cos(lat)), Sin(lat), FxMul(Cos(lon), Cos(lat)))

\* The normalized point of the output pixel at (coordXf, coordYf) under the
\* rectilinear, equirectangular and cylindrical projections.
NormalizedCoordinate(p, coordXf, coordYf) ==
  LET outputW == p.outputWidth * Scale
      outputH == p.outputHeight * Scale
      isEquirect == p.projection = 1
      isCylindrical == p.projection = 3
      lon == FxMul(FxMul(FxDiv(coordXf, outputW) - Scale \div 2, Pi), 2 * Scale)
      fCyl == FxDiv(outputW, TwoPi)
  IN CASE isEquirect ->
            SphericalNormalized(lon, FxMul(FxDiv(coordYf, outputH) - Scale \div 2, Pi))
       [] isCylindrical ->
            SphericalNormalized(
              lon, AtanSigned(FxDiv(coordYf - FxMul(outputH, Scale \div 2), fCyl)))
       [] OTHER ->
            [validProjection |-> TRUE,
             normX |-> FxDiv(coordXf - p.newCx, p.newFx),
             normY |-> FxDiv(coordYf - p.newCy, p.newFy)]

\* The input pixel (u, v) of a distorted point, and the in-bounds flag.
InputCoordinate(p, validProjection, distortedX, distortedY) ==
  LET inputW == p.inputWidth * Scale
      inputH == p.inputHeight * Scale
      u == FxMul(p.fx, distortedX + FxMul(p.alpha, distortedY)) + p.cx
      v == FxMul(p.fy, distortedY) + p.cy
  IN [u |-> u, v |-> v, validProjection |-> validProjection,
      inBounds |-> /\ validProjection
                   /\ u >= 0 /\ u <= inputW - Scale
                   /\ v >= 0 /\ v <= inputH - Scale]

\* The distorted point of a normalized point, as an input pixel.
DistortedCoordinate(p, validProjection, distorted) ==
  InputCoordinate(p, validProjection, distorted.distortedX, distorted.distortedY)

\* The input pixel of a normalized point.
ProjectNormalized(p, norm) ==
  DistortedCoordinate(p, norm.validProjection, ForwardDistort(norm.normX, norm.normY, p.D))

\* The kernel from the head to the in-bounds flag: the source coordinate (u, v) of
\* the output pixel (x, y) under the uniforms p.
SourceCoordinate(p, x, y) ==
  LET outputW == p.outputWidth * Scale
      outputH == p.outputHeight * Scale
      inputW == p.inputWidth * Scale
      inputH == p.inputHeight * Scale
      coordXf == x * Scale
      coordYf == y * Scale
      isOriginal == p.projection = 2
  IN IF isOriginal
     THEN [u |-> FxMul(FxDiv(coordXf, outputW), inputW),
           v |-> FxMul(FxDiv(coordYf, outputH), inputH),
           validProjection |-> TRUE, inBounds |-> TRUE]
     ELSE ProjectNormalized(p, NormalizedCoordinate(p, coordXf, coordYf))

\* The kernel from the in-bounds flag on, for the source coordinate src: the texels
\* it loads, the values it stores and where.
Bilinear(p, x, y, src) ==
  LET x0 == Floor(src.u)
      y0 == Floor(src.v)
      fx == src.u - x0
      fy == src.v - y0
      maxX == p.inputWidth * Scale - Scale
      maxY == p.inputHeight * Scale - Scale
      ix0 == TexelIndex(x0, maxX)
      iy0 == TexelIndex(y0, maxY)
      ix1 == TexelIndex(x0 + Scale, maxX)
      iy1 == TexelIndex(y0 + Scale, maxY)
      c00 == textureLoad(p.inputWidth, p.inputHeight, ix0, iy0)
      c10 == textureLoad(p.inputWidth, p.inputHeight, ix1, iy0)
      c01 == textureLoad(p.inputWidth, p.inputHeight, ix0, iy1)
      c11 == textureLoad(p.inputWidth, p.inputHeight, ix1, iy1)
      color == [rgb |-> Mix(Mix(c00.rgb, c10.rgb, fx), Mix(c01.rgb, c11.rgb, fx), fy),
                a |-> Mix(Mix(c00.a, c10.a, fx), Mix(c01.a, c11.a, fx), fy)]
      nothing == [u |-> src.u, v |-> src.v, validProjection |-> src.validProjection,
                  inBounds |-> FALSE, loads |-> << >>, stores |-> << >>]
  IN IF ~src.inBounds
     THEN [nothing EXCEPT !.stores = << [coord |-> << x, y >>, value |-> OpaqueBlack] >>]
     ELSE [nothing EXCEPT !.inBounds = TRUE,
                          !.loads = << << ix0, iy0 >>, << ix1, iy0 >>, << ix0, iy1 >>,
                                       << ix1, iy1 >> >>,
                          !.stores = << [coord |-> << x, y >>, value |-> color] >>]

\* One invocation of the kernel at (x, y): the texels it loads, the values it
\* stores and where, and its source coordinate.
Kernel(p, x, y) ==
  IF OutsideOutput(x * Scale, y * Scale, p.outputWidth * Scale, p.outputHeight * Scale)
  THEN [u |-> 0, v |-> 0, validProjection |-> FALSE, inBounds |-> FALSE,
        loads |-> << >>, stores |-> << >>]
  ELSE Bilinear(p, x, y, SourceCoordinate(p, x, y))

\* The threads of a dispatch over an output of width x height.
Grid(width, height) == (0..(width - 1 + GridPadding)) \X (0..(height - 1 + GridPadding))

\* The k-th thread to run (k from 1), the threads running row by row from the first
\* ("forward") or from the last ("backward").
Thread(width, height, order, k) ==
  LET columns == width + GridPadding
      rows == height + GridPadding
      n == IF order = "forward" THEN k - 1 ELSE columns * rows - k
  IN << n % columns, n \div columns >>

\* The uniforms of the dispatches: every projection; outputs up to MaxOutputSide wide
\* and high; a 2 x 2 input with a focal length of 1 pixel or a 4 x 2 input with a
\* focal length of 2 pixels, the principal point at the centre; without skew and
\* distortion or with both; the new camera matrix centred on the output, with a
\* focal length of 1 pixel.
KernelUniforms ==
  { [projection |-> projection, outputWidth |-> ow, outputHeight |-> oh,
     inputWidth |-> 2 * f, inputHeight |-> 2,
     fx |-> f * Scale, fy |-> f * Scale, cx |-> f * Scale, cy |-> Scale,
     alpha |-> lens.alpha, D |-> lens.D,
     newFx |-> Scale, newFy |-> Scale,
     newCx |-> (ow * Scale) \div 2, newCy |-> (oh * Scale) \div 2] :
      projection \in 0..3, ow \in 1..MaxOutputSide, oh \in 1..MaxOutputSide,
      f \in {1, 2},
      lens \in {[alpha |-> 0, D |-> [k1 |-> 0, k2 |-> 0, k3 |-> 0, k4 |-> 0]],
                [alpha |-> Scale \div 2,
                 D |-> [k1 |-> Scale \div 10, k2 |-> 0, k3 |-> 0, k4 |-> Scale \div 10]]} }

\* dispatchThreads(width, height) with the uniforms p bound: no thread has run.
DispatchThreads(p, order) ==
  /\ calc = NoCalc
  /\ calc' = [fn |-> "dispatchThreads", p |-> p, order |-> order, done |-> 0,
              invocations |-> [c \in Grid(p.outputWidth, p.outputHeight) |-> << >>],
              outputTexture |-> [c \in Grid(p.outputWidth, p.outputHeight) |-> << >>]]
  /\ UNCHANGED << config, gpuVars, envVars, histVars >>

\* The next thread of the dispatch runs the kernel.
Invoke ==
  /\ calc.fn = "dispatchThreads"
  /\ calc.done < Cardinality(DOMAIN calc.invocations)
  /\ LET c == Thread(calc.p.outputWidth, calc.p.outputHeight, calc.order, calc.done + 1)
         out == Kernel(calc.p, c[1], c[2])
     IN calc' = [calc EXCEPT
                   !.done = calc.done + 1,
                   !.invocations[c] = Append(@, out),
                   !.outputTexture =
                     [t \in DOMAIN calc.outputTexture |->
                        calc.outputTexture[t]
                          \o SelectSeq(out.stores, LAMBDA st : st.coord = t)]]
  /\ UNCHANGED << config, gpuVars, envVars, histVars >>

(***************************************************************************)
(* createVideoFrameFromYUV and calculateYUVDataSize (utils.ts)             *)
(***************************************************************************)

\* Widths and heights are drawn from -1..MaxYUVSide.
MaxYUVSide == 3

\* type YUVFormat
YUVFormat == {"I420", "I420A", "I422", "I444", "NV12"}

RatLess(x, y) == x.num * y.den < y.num * x.den

\* calculateYUVDataSize(format, width, height); lumaSize / 2 is not rounded.
calculateYUVDataSize(format, width, height) ==
  LET lumaSize == width * height
  IN CASE format \in {"I420", "NV12"} -> RatAdd(Rat(lumaSize, 1), Rat(lumaSize, 2))
       [] format = "I420A" -> RatAdd(Rat(lumaSize * 2, 1), Rat(lumaSize, 2))
       [] format = "I422" -> Rat(lumaSize * 2, 1)
       [] format = "I444" -> Rat(lumaSize * 3, 1)

\* Only negative dimensions are rejected.
InvalidDimensionsNegative(width, height) == width < 0 \/ height < 0

\* if (width <= 0 || height <= 0)
InvalidDimensions(width, height) == width <= 0 \/ height <= 0

\* createVideoFrameFromYUV(data, { format, width, height, timestamp }) for data of
\* byteLength bytes: the error thrown or the frame returned, and the VideoFrame
\* constructor calls made.
CreateVideoFrameFromYUV(format, width, height, byteLength, timestamp) ==
  /\ calc = NoCalc
  /\ LET args == [fn |-> "createVideoFrameFromYUV", format |-> format, width |-> width,
                  height |-> height, byteLength |-> byteLength, timestamp |-> timestamp,
                  error |-> None, constructed |-> << >>]
     IN IF InvalidDimensions(width, height)
        THEN calc' = [args EXCEPT !.error = Some("Width and height must be positive integers")]
        ELSE IF RatLess(Rat(byteLength, 1), calculateYUVDataSize(format, width, height))
             THEN calc' = [args EXCEPT !.error = Some("Buffer too small")]
             ELSE calc' = [args EXCEPT
                             !.constructed = << [format |-> format, codedWidth |-> width,
                                                 codedHeight |-> height,
                                                 timestamp |-> timestamp] >>]
  /\ UNCHANGED << config, gpuVars, envVars, histVars >>

(***************************************************************************)
(* Specifications                                                          *)
(***************************************************************************)

\* Options of the instances whose whole life cycle is explored.
LifecycleCtorOptions ==
  { NoOptions,
    [NoOptions EXCEPT !["width"] = Some(2), !["height"] = Some(2)],
    [NoOptions EXCEPT !["width"] = Some(0), !["height"] = Some(2)] }

LifecycleUpdateOptions ==
  { NoOptions,
    [NoOptions EXCEPT !["width"] = Some(65)],
    [NoOptions EXCEPT !["k1"] = Some(1)],
    [NoOptions EXCEPT !["size"] = Some(SmallSize)],
    [NoOptions EXCEPT !["size"] = Some(WideSize)],
    [NoOptions EXCEPT !["size"] = Some(ZeroSize)],
    [NoOptions EXCEPT !["D"] = Some(D1)] }

\* The life cycle of one instance whose calls are serialized: each undistort is
\* awaited before the next call on the instance.
Init == \E options \in LifecycleCtorOptions : Constructed(options)

Next ==
  \/ \E options \in LifecycleUpdateOptions : UpdateConfig(options)
  \/ Destroy
  \/ \E frame \in Frames : UndistortCall(frame)
  \/ InitializeResume
  \/ UndistortBody
  \/ WorkDone
  \/ MapResolved

Spec == Init /\ [][Next]_vars

\* Configuration only: an instance that never processes a frame, constructed from and
\* updated with every option of the input families.
InitConfig == \E options \in CtorOptions : Constructed(options)

NextConfig == \E options \in UpdateOptions : UpdateConfig(options)

SpecConfig == InitConfig /\ [][NextConfig]_vars

\* The private helpers of an instance, evaluated on their own on enumerated arguments.
InitCalc == Constructed(NoOptions)

\* The focal length of the estimated matrix for every choice of candidates, balance
\* and fovScale (0 stands for the values that are not positive).
NextFocal ==
  \E f1, f2, f3, f4 \in 1..MaxFocal, b \in 0..BalanceSteps, fovScale \in 0..2 :
    EstimateFocal(f1, f2, f3, f4, Rat(b, BalanceSteps), fovScale)

SpecFocal == InitCalc /\ [][NextFocal]_vars

\* The row length of every width, and the row copy of every output size.
NextReadback ==
  \/ \E width \in 1..MaxWidth : CalculateBytesPerRow(width)
  \/ \E width \in CopyWidths, height \in 1..MaxCopyHeight : StartRowCopy(width, height)
  \/ CopyRow

SpecReadback == InitCalc /\ [][NextReadback]_vars

\* The forward distortion of every normalized point and the round trip of every
\* angle, for every coefficient set.
NextDistortion ==
  \/ \E normX, normY \in NormCoordinates, D \in DistortionSets : KernelDistort(normX, normY, D)
  \/ \E theta \in Angles, D \in DistortionSets : RoundTrip(theta, D)

SpecDistortion == InitCalc /\ [][NextDistortion]_vars

\* An instance that never processes a frame: constructed, updated with every option
\* of the input families, and destroyed.
NextUninitialized ==
  \/ \E options \in UpdateOptions : UpdateConfig(options)
  \/ Destroy

SpecUninitialized == InitConfig /\ [][NextUninitialized]_vars

\* createVideoFrameFromYUV on every format, on dimensions that include 0 and -1, and
\* on buffers up to one byte longer than the largest format needs.
NextYUV ==
  \E format \in YUVFormat, width, height \in -1..MaxYUVSide,
     byteLength \in 0..(3 * MaxYUVSide * MaxYUVSide + 1), timestamp \in {0, 10} :
    CreateVideoFrameFromYUV(format, width, height, byteLength, timestamp)

SpecYUV == InitCalc /\ [][NextYUV]_vars

\* Options that select a projection.
ProjectionOptions == { [NoOptions EXCEPT !["projection"] = Some(p)] : p \in Projections }

\* Options that change what getUniformData() returns: a projection, a camera matrix
\* with cx and without cy, distortion coefficients.
UniformOptions ==
  ProjectionOptions
    \cup {[NoOptions EXCEPT !["K"] = Some(K1)], [NoOptions EXCEPT !["D"] = Some(D1)]}

\* Frames processed under every projection: an instance constructed with or without
\* a projection, whose projection, camera matrix and coefficients are updated
\* between serialized undistort calls.
InitUniforms == \E options \in {NoOptions} \cup ProjectionOptions : Constructed(options)

NextUniforms ==
  \/ \E options \in UniformOptions : UpdateConfig(options)
  \/ \E frame \in Frames : UndistortCall(frame)
  \/ InitializeResume
  \/ UndistortBody
  \/ WorkDone
  \/ MapResolved

SpecUniforms == InitUniforms /\ [][NextUniforms]_vars

\* One dispatch of the kernel under every set of uniforms, its threads run in
\* either order.
NextKernel ==
  \/ \E p \in KernelUniforms, order \in {"forward", "backward"} : DispatchThreads(p, order)
  \/ Invoke

SpecKernel == InitCalc /\ [][NextKernel]_vars

\* Serialized calls on an instance whose initialization can fail at any of its steps.
NextInitFailure ==
  \/ \E frame \in Frames : UndistortCall(frame)
  \/ InitializeResume
  \/ \E step \in InitializeSteps : InitializeFails(step)
  \/ UndistortBody
  \/ WorkDone
  \/ MapResolved
  \/ Destroy

SpecInitFailure == Init /\ [][NextInitFailure]_vars

\* Two undistort calls on one instance, the second started while the first is
\* still in flight; each call resumes from its awaits in any order.
NextOverlap ==
  \/ \E frame \in Frames : UndistortCall(frame)
  \/ \E frame \in Frames : OverlappingCall(frame)
  \/ InitializeResume
  \/ InitializeResume2
  \/ UndistortBody
  \/ UndistortBody2
  \/ WorkDone
  \/ WorkDone2
  \/ MapResolved
  \/ MapResolved2

SpecOverlap == Init /\ [][NextOverlap]_vars

\* updateConfig(options) called while an undistort call is suspended at an await.
UpdateConfigDuringCall(options) == call.pc # "idle" /\ updateConfig(options)

\* destroy() called while an undistort call is suspended at an await.
DestroyDuringCall == call.pc # "idle" /\ destroy

\* Options passed to updateConfig during a call: one changes the output size,
\* one does not.
InterleavedUpdateOptions ==
  { [NoOptions EXCEPT !["width"] = Some(65)],
    [NoOptions EXCEPT !["k1"] = Some(1)] }

\* One undistort call at a time, with updateConfig and destroy running while the
\* call is suspended.
NextInterleaved ==
  \/ \E frame \in Frames : UndistortCall(frame)
  \/ InitializeResume
  \/ UndistortBody
  \/ WorkDone
  \/ MapResolved
  \/ \E options \in InterleavedUpdateOptions : UpdateConfigDuringCall(options)
  \/ DestroyDuringCall

SpecInterleaved == Init /\ [][NextInterleaved]_vars

(***************************************************************************)
(* Properties                                                              *)
(***************************************************************************)

\* The step taken is a call of updateConfig.
UpdateConfigStep == lastOp'.op = "updateConfig"

\* The last operation was an undistort call that returned a frame.
UndistortReturned == lastOp.op = "undistort" /\ lastOp.outcome = "returned"

\* C1: a constructor or updateConfig call whose options carry both ptz and pane
\* ends with a configuration error.
C1_BothModesRejected ==
  (lastOp.op \in {"constructor", "updateConfig"}
     /\ validateModeExclusivity(lastOp.options["ptz"], lastOp.options["pane"]))
    => lastOp.outcome = "threw"

\* C2: once destroy() has been called no GPU device is held again, and every later
\* undistort or updateConfig call ends with an error.
C2_DestroyedIsTerminal ==
  destroyCalled =>
    /\ root = None
    /\ lastOp.op \in {"undistort", "updateConfig"} => lastOp.outcome \in {"pending", "threw"}

\* The output size an updateConfig call asks for: the grouped size when given, else
\* the flat width and height, else the stored value.
RequestedSize(options, stored) ==
  IF IsSome(options["size"])
  THEN Val(options["size"])
  ELSE [width |-> OrElse(options["width"], stored.width),
        height |-> OrElse(options["height"], stored.height)]

\* C3: an updateConfig call that asks, flat or grouped, for an output size other than
\* the stored one stores the new size and nulls the output texture and the
\* readback buffers.
C3_SizeChangeInvalidates ==
  [][ (UpdateConfigStep /\ RequestedSize(lastOp'.options, config.size) # config.size)
        => /\ config'.size = RequestedSize(lastOp'.options, config.size)
           /\ outputTexture' = None
           /\ readbackBuffers' = None ]_vars

\* C4: an updateConfig call that leaves the output size as it was neither destroys
\* nor nulls the output texture, the readback buffers or the pixel buffer, and
\* leaves readbackIndex and readbackHasData unchanged.
C4_SameSizeKeepsOutputSide ==
  [][ (UpdateConfigStep /\ config'.size = config.size)
        => /\ outputTexture' = outputTexture
           /\ readbackBuffers' = readbackBuffers
           /\ pixelBuffer' = pixelBuffer
           /\ readbackIndex' = readbackIndex
           /\ readbackHasData' = readbackHasData
           /\ destroyedIds' = destroyedIds ]_vars

\* C4 witness: after a processed frame, an updateConfig with new distortion
\* coefficients has run and the output side is still allocated and holds its data.
C4_Witness ==
  /\ lastOp.op = "updateConfig"
  /\ lastOp.options["D"] = Some(D1)
  /\ config.D = D1
  /\ IsSome(outputTexture)
  /\ IsSome(readbackBuffers)
  /\ IsSome(pixelBuffer)
  /\ readbackIndex = 1
  /\ readbackHasData = << TRUE, FALSE >>

\* The grouped field a flat option key belongs to.
FieldOfFlatKey(k) ==
  CASE k \in {"fx", "fy", "cx", "cy", "alpha"} -> "K"
    [] k \in {"k1", "k2", "k3", "k4"} -> "D"
    [] k \in {"width", "height"} -> "size"

\* The stored config holds value v for the option key k.
Stored(cfg, k, v) ==
  CASE k \in {"K"} -> cfg.K = Some(v)
    [] k \in {"D", "size", "fovScale", "projection"} -> cfg[k] = v
    [] k = "balance" -> cfg.balance = ClampBalance(v)
    [] k \in {"k1", "k2", "k3", "k4"} -> cfg.D[k] = v
    [] k \in {"width", "height"} -> cfg.size[k] = v
    [] k \in {"fx", "fy"} -> IsSome(cfg.K) /\ Val(cfg.K)[k] = v
    [] k \in {"cx", "cy", "alpha"} -> IsSome(cfg.K) /\ Val(cfg.K)[k] = Some(v)

\* C5: after updateConfig every option the call named, flat or grouped, has its new
\* value in the stored config (balance clamped to [0, 1]; a flat key is read when
\* the call does not also give its grouped field, an intrinsic when the config
\* has a K to hold it).
C5_NamedOptionsStored ==
  lastOp.op = "updateConfig" =>
    \A k \in OptionKeys \ ModeKeys :
      LET o == lastOp.options
          counted ==
            /\ IsSome(o[k])
            /\ k \in FlatKeys => ~IsSome(o[FieldOfFlatKey(k)])
            /\ k \in {"fx", "fy", "cx", "cy", "alpha"} => IsSome(config.K)
      IN counted => Stored(config, k, Val(o[k]))

\* The options name the config field f: by its grouped or shared key, or by one of
\* its flat keys.
NamesField(options, f) ==
  \/ IsSome(options[f])
  \/ \E k \in FlatKeys : FieldOfFlatKey(k) = f /\ IsSome(options[k])

\* C6: updateConfig is a merge: every config field the options do not name keeps
\* the value it had before the call.
C6_UnnamedFieldsKept ==
  [][ UpdateConfigStep =>
        \A f \in ConfigFields : ~NamesField(lastOp'.options, f) => config'[f] = config[f] ]_vars

\* C6 witness: an instance constructed with flat k1 has had its balance updated and
\* still holds the distortion coefficients and the default size.
C6_Witness ==
  /\ lastOp.op = "updateConfig"
  /\ lastOp.options["balance"] = Some(1)
  /\ config.balance = 1
  /\ config.D = [k1 |-> 1, k2 |-> 0, k3 |-> 0, k4 |-> 0]
  /\ config.size = [width |-> 300, height |-> 150]

C8_NoFrameLatency == UndistortReturned => Val(result).pixels = nCalls

\* C9: the returned frame carries the timestamp of the frame passed to the call,
\* and its coded size is the configured output size.
C9_TimestampAndSize ==
  UndistortReturned =>
    /\ Val(result).timestamp = Val(lastOp.frame).timestamp
    /\ Val(result).codedWidth = config.size.width
    /\ Val(result).codedHeight = config.size.height

\* C9 witness: a second call, given timestamp 20, has returned the pixels of the
\* first frame under timestamp 20 and with the output size updated before it.
C9_Witness ==
  /\ UndistortReturned
  /\ nCalls = 2
  /\ Val(lastOp.frame).timestamp = 20
  /\ Val(result).timestamp = 20
  /\ Val(result).codedWidth = 65
  /\ config.size = WideSize

\* C10: no output size with a non-positive width or height is ever stored in the
\* config or used to allocate the output texture and the readback buffers.
C10_NonPositiveSizeRejected ==
  /\ config.size.width > 0 /\ config.size.height > 0
  /\ IsSome(outputTexture) => Val(outputTexture).width > 0 /\ Val(outputTexture).height > 0
  /\ (lastOp.op \in {"constructor", "updateConfig"}
        /\ \/ RequestedSize(lastOp.options, config.size).width <= 0
           \/ RequestedSize(lastOp.options, config.size).height <= 0)
       => lastOp.outcome = "threw"

\* The first undistort call has passed the await of tgpu.init().
FirstCallInitialized == nCalls >= 1 /\ ~(nCalls = 1 /\ call.pc = "acquiring")

\* C11: while destroy() has not been called, no device is acquired before the first
\* undistort call, and from the first call on exactly one device has been acquired;
\* the root, the uniform buffer and the pipeline are the ones created by that call.
C11_LazyIdempotentInit ==
  ~destroyCalled =>
    /\ devicesAcquired = IF FirstCallInitialized THEN 1 ELSE 0
    /\ IsSome(root) <=> FirstCallInitialized
    /\ IsSome(uniformBuffer) <=> FirstCallInitialized
    /\ IsSome(pipeline) <=> FirstCallInitialized
    /\ FirstCallInitialized =>
         /\ Val(root).id = 1
         /\ Val(uniformBuffer).id = 2
         /\ Val(pipeline).id = 3

\* C11 witness: three frames were processed, with an updateConfig in between, on
\* the device acquired by the first call.
C11_Witness ==
  /\ ~destroyCalled
  /\ nCalls = 3
  /\ UndistortReturned
  /\ config.D = D1
  /\ devicesAcquired = 1
  /\ Val(pipeline).id = 3

\* C12: a cached matrix is the one the estimation computes from the current config
\* and the current uniform input size, and the estimated matrix in the uniform
\* buffer at a dispatch is the one computed from the current config and the size
\* of the frame being processed.
C12_CacheNeverStale ==
  /\ IsSome(cachedNewCameraMatrix) =>
       Val(cachedNewCameraMatrix) =
         computeNewCameraMatrix(config, OrIfZero(uniformInputWidth, config.size.width),
                                OrIfZero(uniformInputHeight, config.size.height))
  /\ (call.pc = "submitted" /\ Val(uniformBuffer).data.newCam[1] = "estimated") =>
       Val(uniformBuffer).data.newCam[2] =
         computeNewCameraMatrix(config, Val(call.frame).displayWidth,
                                Val(call.frame).displayHeight)

\* C12 witness: the second frame, wider than the first and processed after an
\* updateConfig with new distortion coefficients, is dispatched with the matrix
\* estimated from the new coefficients and the new frame size.
C12_Witness ==
  /\ call.pc = "submitted"
  /\ nCalls = 2
  /\ config.D = D1
  /\ Val(call.frame).displayWidth = 4
  /\ inputTextureSize = << 4, 2 >>
  /\ copiesSinceAlloc = 2
  /\ Val(uniformBuffer).data.newCam = << "estimated", computeNewCameraMatrix(config, 4, 2) >>

\* The divisor the focal length goes through: fovScale when positive.
FocalDivisor == IF calc.fovScale > 0 THEN calc.fovScale ELSE 1

\* C13 as stated: balance 0 yields the focal length derived from fMin, balance 1 the
\* one derived from fMax.
C13_BalanceZeroIsFMin ==
  calc.fn = "computeNewCameraMatrix" =>
    /\ calc.balance.num = 0 =>
         RatEq(calc.f, Rat(fMin(calc.f1, calc.f2, calc.f3, calc.f4), FocalDivisor))
    /\ calc.balance.num = calc.balance.den =>
         RatEq(calc.f, Rat(fMax(calc.f1, calc.f2, calc.f3, calc.f4), FocalDivisor))

\* C13 amended: balance 0 yields the focal length derived from fMax, balance 1 the
\* one derived from fMin, and a balance b in between the value that lies the
\* fraction b of the way from the first to the second.
C13_BalanceInterpolates ==
  calc.fn = "computeNewCameraMatrix" =>
    LET lo == fMin(calc.f1, calc.f2, calc.f3, calc.f4)
        hi == fMax(calc.f1, calc.f2, calc.f3, calc.f4)
        b == calc.balance
    IN /\ b.num = 0 => RatEq(calc.f, Rat(hi, FocalDivisor))
       /\ b.num = b.den => RatEq(calc.f, Rat(lo, FocalDivisor))
       /\ calc.f.num * FocalDivisor * b.den = calc.f.den * (hi * b.den - b.num * (hi - lo))

\* C13 witness: candidates between 1 and 3, balance 1/4 and fovScale 2 give 5/4.
C13_Witness ==
  /\ calc.fn = "computeNewCameraMatrix"
  /\ fMin(calc.f1, calc.f2, calc.f3, calc.f4) = 1
  /\ fMax(calc.f1, calc.f2, calc.f3, calc.f4) = 3
  /\ calc.balance = Rat(1, 4)
  /\ calc.fovScale = 2
  /\ RatEq(calc.f, Rat(5, 4))

\* C14: calculateBytesPerRow(width) is the least multiple of 256 that holds
\* 4 * width bytes: 512 for width 65 and 1024 for width 256.
C14_BytesPerRowIsCeiling ==
  calc.fn = "calculateBytesPerRow" =>
    /\ calc.bytesPerRow % 256 = 0
    /\ calc.bytesPerRow >= 4 * calc.width
    /\ calc.bytesPerRow < 4 * calc.width + 256
    /\ calc.width = 65 => calc.bytesPerRow = 512
    /\ calc.width = 256 => calc.bytesPerRow = 1024

\* C14 witness: width 257 needs a fifth block of 256 bytes.
C14_Witness ==
  /\ calc.fn = "calculateBytesPerRow"
  /\ calc.width = 257
  /\ calc.bytesPerRow = 1280

\* The row copy has run to its end.
RowCopyDone == calc.fn = "readbackToVideoFrame" /\ calc.row = calc.height

\* C15: after the copy, byte r * 4 * width + b of the pixel data is byte
\* r * bytesPerRow + b of the mapped buffer for every row r and every b < 4 * width;
\* no pixel byte comes from the padding of a row, and the pixel data holds
\* 4 * width * height bytes.
C15_RowStridedCopy ==
  RowCopyDone =>
    LET w == calc.width
        h == calc.height
        bytesPerRow == calculateBytesPerRow(w)
    IN /\ DOMAIN calc.pixelData = 0..(4 * w * h - 1)
       /\ \A r \in 0..(h - 1) : \A b \in 0..(4 * w - 1) :
            calc.pixelData[r * 4 * w + b] = srcView(r * bytesPerRow + b)
       /\ \A i \in DOMAIN calc.pixelData :
            /\ calc.pixelData[i] >= 0
            /\ calc.pixelData[i] % bytesPerRow < 4 * w

\* C15 witness: three rows of 65 pixels were copied out of rows of 512 bytes; the
\* second row of the pixel data starts with byte 512 of the mapped buffer.
C15_Witness ==
  /\ RowCopyDone
  /\ calc.width = 65
  /\ calc.height = 3
  /\ calc.pixelData[260] = 512
  /\ calc.pixelData[779] = 1283

C17_RoundTrip ==
  calc.fn = "undistortPointNormalized" =>
    /\ IsSome(calc.recovered)
    /\ Abs(Val(calc.recovered) - calc.theta) <= 3

C19_ValidatesBeforeConstructing ==
  calc.fn = "createVideoFrameFromYUV" =>
    LET badSize == calc.width <= 0 \/ calc.height <= 0
        expected == calculateYUVDataSize(calc.format, calc.width, calc.height)
        short == expected.den * calc.byteLength < expected.num
    IN /\ badSize =>
            /\ calc.error = Some("Width and height must be positive integers")
            /\ calc.constructed = << >>
       /\ (~badSize /\ short) =>
            /\ calc.error = Some("Buffer too small")
            /\ calc.constructed = << >>
       /\ (~badSize /\ ~short) =>
            /\ calc.error = None
            /\ calc.constructed =
                 << [format |-> calc.format, codedWidth |-> calc.width,
                     codedHeight |-> calc.height, timestamp |-> calc.timestamp] >>

\* C19 witness: a 3x3 I420 frame needs 13.5 bytes: 13 bytes were refused.
C19_Witness ==
  /\ calc.fn = "createVideoFrameFromYUV"
  /\ calc.format = "I420"
  /\ calc.width = 3 /\ calc.height = 3
  /\ calc.byteLength = 13
  /\ calc.error = Some("Buffer too small")
  /\ calc.constructed = << >>

\* C20: a step that dispatches the kernel ends with a bind group made of the current
\* input texture, output texture and uniform buffer, none of them destroyed; the
\* input texture has the size of the frame, the output texture and both readback
\* buffers the size of the configured output.  Any step that puts a new bind
\* group in place also puts a new input or output texture in place.
C20_BindGroupIsCurrent ==
  [][ /\ (call.pc = "initialized" /\ call'.pc = "submitted") =>
           LET group == Val(bindGroup')
               frame == Val(call'.frame)
               bufferSize == calculateBytesPerRow(config'.size.width) * config'.size.height
           IN /\ group.inputTexture = Val(inputTexture').id
              /\ group.outputTexture = Val(outputTexture').id
              /\ group.uniforms = Val(uniformBuffer').id
              /\ {group.inputTexture, group.outputTexture, group.uniforms}
                   \cap destroyedIds' = {}
              /\ Val(inputTexture').width = frame.displayWidth
              /\ Val(inputTexture').height = frame.displayHeight
              /\ Val(outputTexture').width = config'.size.width
              /\ Val(outputTexture').height = config'.size.height
              /\ \A i \in 1..2 :
                   /\ Val(readbackBuffers')[i].size = bufferSize
                   /\ Val(readbackBuffers')[i].id \notin destroyedIds'
      /\ (IsSome(bindGroup') /\ bindGroup' # bindGroup) =>
           \/ IdsOf(inputTexture') # IdsOf(inputTexture)
           \/ IdsOf(outputTexture') # IdsOf(outputTexture) ]_vars

\* C20 witness: the second frame is dispatched after updateConfig changed the output
\* size: the input texture of the first call is kept, the output texture is new
\* and 65 wide, and the bind group was rebuilt from the two.
C20_Witness ==
  /\ call.pc = "submitted"
  /\ nCalls = 2
  /\ config.size = WideSize
  /\ Val(inputTexture).id = 4
  /\ Val(outputTexture).width = 65
  /\ Val(outputTexture).id > 8
  /\ Val(bindGroup).inputTexture = 4
  /\ Val(bindGroup).outputTexture = Val(outputTexture).id
  /\ Val(bindGroup).id > Val(outputTexture).id

\* C21: the undistort step that processes a frame puts a new input texture in place
\* exactly when there was none or the one allocated has another width or height
\* than the frame; the new one has the frame's size and the old one is destroyed.
\* Otherwise the texture object stays, undestroyed, and only its contents change,
\* to the frame's pixels.
C21_InputTextureReuse ==
  [][ (call.pc = "initialized" /\ IsSome(root) /\ IsSome(uniformBuffer)) =>
        LET frame == Val(call.frame)
            stale == \/ inputTexture = None
                     \/ Val(inputTexture).width # frame.displayWidth
                     \/ Val(inputTexture).height # frame.displayHeight
        IN /\ IsSome(inputTexture')
           /\ Val(inputTexture').content = frame.seq
           /\ Val(inputTexture').width = frame.displayWidth
           /\ Val(inputTexture').height = frame.displayHeight
           /\ Val(inputTexture').id \notin destroyedIds'
           /\ stale => /\ Val(inputTexture').id \notin IdsOf(inputTexture)
                       /\ Val(inputTexture').id >= nextId
                       /\ IdsOf(inputTexture) \subseteq destroyedIds'
           /\ ~stale => /\ Val(inputTexture').id = Val(inputTexture).id
                        /\ inputTextureSize' = inputTextureSize ]_vars

\* C21 witness: three frames were processed, the second of the size of the first and
\* the third wider: the second was written into the texture of the first, the
\* third into a new one.
C21_Witness ==
  /\ nCalls = 3
  /\ call.pc = "submitted"
  /\ copyLog = << 1, 2, 3 >>
  /\ 4 \in destroyedIds
  /\ Val(inputTexture).id > 9
  /\ Val(inputTexture).width = 4
  /\ Val(inputTexture).content = 3

\* The projection is rectilinear with the matrix estimated.
isRectilinearAuto(p) == p.kind = "rectilinear" /\ p.mode = None

\* C22: a matrix computed by the estimation is held only while the projection is
\* rectilinear-auto; under rectilinear-manual none is held, and the uniform buffer
\* of a dispatch carries the caller's newFx and newFy scaled by output size over
\* input size.
C22_EstimationOnlyForAuto ==
  /\ IsSome(cachedNewCameraMatrix) => isRectilinearAuto(config.projection)
  /\ (call.pc = "submitted" /\ isRectilinearManual(config.projection)) =>
       LET data == Val(uniformBuffer).data
           frame == Val(call.frame)
       IN /\ cachedNewCameraMatrix = None
          /\ data.newCam[1] = "manual"
          /\ RatEq(data.newCam[2].newFx,
                   Rat(Val(config.projection.newFx) * config.size.width, frame.displayWidth))
          /\ RatEq(data.newCam[2].newFy,
                   Rat(Val(config.projection.newFy) * config.size.height, frame.displayHeight))

\* C23: in the uniform buffer of a dispatch, cx is K.cx when the config gives one and
\* else half the width of the frame of this call, cy is K.cy when given and else
\* half the height of the frame of this call; the input size in the buffer is the
\* size of that frame.
C23_PrincipalPointDefaults ==
  call.pc = "submitted" =>
    LET data == Val(uniformBuffer).data
        frame == Val(call.frame)
        K == config.K
    IN /\ data.inputWidth = frame.displayWidth
       /\ data.inputHeight = frame.displayHeight
       /\ RatEq(data.cx, IF IsSome(K) /\ IsSome(Val(K).cx) THEN Rat(Val(Val(K).cx), 1)
                         ELSE Rat(frame.displayWidth, 2))
       /\ RatEq(data.cy, IF IsSome(K) /\ IsSome(Val(K).cy) THEN Rat(Val(Val(K).cy), 1)
                         ELSE Rat(frame.displayHeight, 2))

\* C23 witness: the second frame is 4 wide, after a first frame 2 wide, on an output
\* of 300 x 150 and without a camera matrix: the dispatch has cx = 2 and cy = 1.
C23_Witness ==
  /\ call.pc = "submitted"
  /\ nCalls = 2
  /\ config.K = None
  /\ config.size = [width |-> 300, height |-> 150]
  /\ Val(call.frame).displayWidth = 4
  /\ Val(inputTexture).id > 4
  /\ Val(uniformBuffer).data.cx = Rat(4, 2)
  /\ Val(uniformBuffer).data.cy = Rat(2, 2)

\* C23 second witness: with a camera matrix that gives cx = 1 and no cy, the
\* dispatch of a frame 4 wide has cx = 1 and cy = 1, half the frame's height.
C23_WitnessPartialK ==
  /\ call.pc = "submitted"
  /\ config.K = Some(K1)
  /\ Val(call.frame).displayWidth = 4
  /\ Val(uniformBuffer).data.cx = Rat(1, 1)
  /\ Val(uniformBuffer).data.cy = Rat(2, 2)

\* Every thread of the dispatch has run.
DispatchDone ==
  calc.fn = "dispatchThreads" /\ calc.done = Cardinality(DOMAIN calc.invocations)

\* The source coordinate an invocation computed lies in the input texture.
SourceInRange(out, p) ==
  /\ out.u >= 0 /\ out.u <= (p.inputWidth - 1) * Scale
  /\ out.v >= 0 /\ out.v <= (p.inputHeight - 1) * Scale

\* The value is a mix of texels of the input texture: opaque, not black, and within
\* the range of the texture's colours.
IsSample(value, p) ==
  /\ value.a = Scale
  /\ value.rgb >= Scale
  /\ value.rgb <= p.inputWidth * p.inputHeight * Scale

\* C24 as stated: after a dispatch every output pixel holds exactly one stored value,
\* a sample when the projection is valid and the source coordinate is in range and
\* opaque black otherwise; nothing is stored outside the output.
C24_SampleIffInRange ==
  DispatchDone =>
    \A c \in DOMAIN calc.outputTexture :
      LET p == calc.p
          out == calc.invocations[c][1]
          stored == calc.outputTexture[c]
      IN IF c[1] < p.outputWidth /\ c[2] < p.outputHeight
         THEN /\ Len(stored) = 1
              /\ IF out.validProjection /\ SourceInRange(out, p)
                 THEN IsSample(stored[1].value, p)
                 ELSE stored[1].value = OpaqueBlack
         ELSE stored = << >>

\* C24 amended: as C24, but under the original projection every output pixel holds
\* a sample, whatever its source coordinate.
C24_SampleIffInRangeOrOriginal ==
  DispatchDone =>
    \A c \in DOMAIN calc.outputTexture :
      LET p == calc.p
          out == calc.invocations[c][1]
          stored == calc.outputTexture[c]
      IN /\ Len(calc.invocations[c]) = 1
         /\ IF c[1] < p.outputWidth /\ c[2] < p.outputHeight
            THEN /\ Len(stored) = 1
                 /\ IF p.projection = 2 \/ (out.validProjection /\ SourceInRange(out, p))
                    THEN IsSample(stored[1].value, p)
                    ELSE stored[1].value = OpaqueBlack
            ELSE stored = << >>

\* C24 witness: an equirectangular dispatch on a 3 x 3 output has stored a sample at
\* one pixel and black at a pixel whose direction points backwards, and black at
\* a pixel whose source coordinate is out of range.
C24_Witness ==
  /\ DispatchDone
  /\ calc.p.projection = 1
  /\ calc.p.outputWidth = 3 /\ calc.p.outputHeight = 3
  /\ \E c \in DOMAIN calc.outputTexture :
       /\ Len(calc.outputTexture[c]) = 1
       /\ IsSample(calc.outputTexture[c][1].value, calc.p)
  /\ \E c \in DOMAIN calc.outputTexture :
       /\ ~calc.invocations[c][1].validProjection
       /\ calc.outputTexture[c] = << [coord |-> c, value |-> OpaqueBlack] >>
  /\ \E c \in DOMAIN calc.outputTexture :
       /\ calc.invocations[c][1].validProjection
       /\ ~SourceInRange(calc.invocations[c][1], calc.p)
       /\ calc.outputTexture[c] = << [coord |-> c, value |-> OpaqueBlack] >>
  /\ calc.outputTexture[<< 3, 3 >>] = << >>

\* C25: every texel an invocation loads has its column in 0..inputWidth-1 and its row
\* in 0..inputHeight-1, under every projection.
C25_LoadsInsideInput ==
  calc.fn = "dispatchThreads" =>
    \A c \in DOMAIN calc.invocations :
      \A n \in 1..Len(calc.invocations[c]) :
        LET out == calc.invocations[c][n]
        IN \A k \in 1..Len(out.loads) :
             /\ out.loads[k][1] \in 0..(calc.p.inputWidth - 1)
             /\ out.loads[k][2] \in 0..(calc.p.inputHeight - 1)

\* C25 witness: an original-projection dispatch from a 2 x 2 input to an output
\* 3 high: the pixel of the last row has v beyond the last input row, and its four
\* loads are clamped to that row.
C25_Witness ==
  /\ DispatchDone
  /\ calc.p.projection = 2
  /\ calc.p.inputWidth = 2
  /\ calc.p.outputWidth = 1 /\ calc.p.outputHeight = 3
  /\ calc.invocations[<< 0, 2 >>][1].v > Scale
  /\ calc.invocations[<< 0, 2 >>][1].loads
       = << << 0, 1 >>, << 1, 1 >>, << 0, 1 >>, << 1, 1 >> >>

\* The map states of the readback buffers, none when there is no pair.
MapStates ==
  IF IsSome(readbackBuffers)
  THEN << Val(readbackBuffers)[1].mapState, Val(readbackBuffers)[2].mapState >>
  ELSE << >>

\* C26: while a call copies into its write buffer and up to its mapAsync, and
\* whenever no call is in flight, no readback buffer is mapped or being mapped;
\* between mapAsync and unmap only the buffer being read is.
C26_NoBufferBusy ==
  /\ call.pc \in {"idle", "acquiring", "initialized", "submitted"} =>
       \A i \in DOMAIN MapStates : MapStates[i] = "unmapped"
  /\ call.pc = "submitted" =>
       /\ IsSome(readbackBuffers)
       /\ Val(readbackBuffers)[call.writeIndex + 1].id \notin destroyedIds
  /\ call.pc = "mapping" =>
       /\ MapStates[call.readSlot + 1] = "pending"
       /\ MapStates[2 - call.readSlot] = "unmapped"

\* C26 witness: the third call on one pair has returned; it copied into the buffer
\* the second call had mapped and read the buffer the second call had written,
\* and both buffers are unmapped.
C26_Witness ==
  /\ UndistortReturned
  /\ nCalls = 3
  /\ copiesSinceAlloc = 3
  /\ Val(readbackBuffers)[1].content = 3
  /\ Val(readbackBuffers)[2].content = 2
  /\ Val(result).pixels = 2
  /\ MapStates = << "unmapped", "unmapped" >>

\* C27: readbackIndex is 0 or 1; a slot is flagged as holding data only while the
\* pair exists and that buffer has been copied into since the pair was created;
\* without a pair, and right after the creation of a pair (its first copy
\* submitted), readbackIndex is 0 and both flags are false.
C27_ReadbackBookkeeping ==
  /\ readbackIndex \in {0, 1}
  /\ \A i \in 1..2 :
       readbackHasData[i] =>
         /\ IsSome(readbackBuffers)
         /\ Val(readbackBuffers)[i].content # 0
         /\ copiesSinceAlloc >= 1
  /\ readbackBuffers = None =>
       /\ readbackIndex = 0
       /\ readbackHasData = << FALSE, FALSE >>
  /\ (call.pc = "submitted" /\ copiesSinceAlloc = 1) =>
       /\ readbackIndex = 0
       /\ readbackHasData = << FALSE, FALSE >>

\* C27 witness: two frames were processed on one pair (both flags set, index back
\* at 0), updateConfig changed the output size, and the next call has created a
\* new pair: index 0, no flag set.
C27_Witness ==
  /\ nCalls = 3
  /\ call.pc = "submitted"
  /\ copiesSinceAlloc = 1
  /\ config.size = WideSize
  /\ copyLog = << 1, 2, 3 >>
  /\ Val(readbackBuffers)[1].id > 9
  /\ readbackIndex = 0
  /\ readbackHasData = << FALSE, FALSE >>

\* C28: an instance at rest holds either none or all of the device, the uniform
\* buffer and the pipeline, so that a call finds it initialized or initializes it
\* whole; a call that is past initialize() runs with all three.
C28_InitAllOrNothing ==
  /\ call.pc = "idle" =>
       /\ IsSome(root) <=> IsSome(uniformBuffer)
       /\ IsSome(root) <=> IsSome(pipeline)
  /\ call.pc = "initialized" =>
       IsSome(root) /\ IsSome(uniformBuffer) /\ IsSome(pipeline)

\* C29: with overlapping undistort calls and no destroy, the instance acquires at
\* most one device, never replaces its uniform buffer or its pipeline by a newly
\* created one, and never replaces a device that has not been destroyed.
C29_OneDeviceUnderOverlap ==
  [][ /\ devicesAcquired' <= 1
      /\ (IsSome(uniformBuffer) /\ IsSome(uniformBuffer')) =>
           Val(uniformBuffer').id = Val(uniformBuffer).id
      /\ (IsSome(pipeline) /\ IsSome(pipeline')) => pipeline' = pipeline
      /\ (IsSome(root) /\ root' # root) => Val(root).id \in destroyedIds' ]_vars

====
